---- MODULE Spec2Model ----
(***************************************************************************)
(* A model of the resource-binding and synchronisation helpers of the      *)
(* framework:                                                              *)
(*   - set_image_layout / insert_image_memory_barrier  (vk_common.cpp)     *)
(*   - PipelineLayout                                  (pipeline_layout.cpp)*)
(*   - DescriptorSetLayout                    (descriptor_set_layout.cpp)  *)
(* Flag sets (vk::AccessFlags, vk::ShaderStageFlags, ...) are modelled as  *)
(* sets of flag names: | is \cup and the empty mask is {}.                 *)
(***************************************************************************)
EXTENDS Integers, Sequences, FiniteSets, TLC

VARIABLES
    command_buffer,   \* the commands recorded into the vk::CommandBuffer
    barrier_calls,    \* the arguments of the calls that recorded them
    pipeline_layout,  \* the PipelineLayout object
    pl_call,          \* the last member function called on it, and its result
    dsl,              \* the DescriptorSetLayout object
    dsl_input,        \* the arguments its constructor was called with
    dsl_call,         \* the last member function called on it, and its result
    vk_call,          \* the last classifier of vk_common.cpp called, and its result
    contexts,         \* the command-recording contexts that call set_image_layout
    objects,          \* the layout objects constructed so far, destroyed ones included
    device,           \* the handles the device created and the ones it was told to destroy
    life_call,        \* the last constructor or destructor run, and its arguments
    gui,              \* the members of the Gui that input_event and update use
    gui_call,         \* the last member function called on it, its arguments and result
    gui_history       \* what happened to `visible` since the last call of update

vars == <<command_buffer, barrier_calls, pipeline_layout, pl_call,
          dsl, dsl_input, dsl_call, vk_call,
          contexts,
          objects, device, life_call,
          gui, gui_call, gui_history>>

barrier_vars == <<command_buffer, barrier_calls>>
pl_vars == <<pipeline_layout, pl_call>>
dsl_vars == <<dsl, dsl_input, dsl_call>>
vk_vars == <<vk_call>>
ctx_vars == <<contexts>>
life_vars == <<objects, device, life_call>>
gui_vars == <<gui, gui_call, gui_history>>

----------------------------------------------------------------------------
(* Bounds of the model *)

\* commands recorded into the command buffer
MaxCommands == 1

\* descriptor-set indices a shader program may use: 0 .. MaxSetIndex
MaxSetIndex == 2

\* push-constant resources of a shader program
MaxPushConstants == 2

\* shader resources of one descriptor set
MaxResources == 2

----------------------------------------------------------------------------
(* vk_common.cpp: image layout transitions *)

\* The layouts the two switches of set_image_layout name ...
HandledLayouts ==
    {"Undefined", "Preinitialized", "ColorAttachmentOptimal",
     "DepthStencilAttachmentOptimal", "TransferSrcOptimal",
     "TransferDstOptimal", "ShaderReadOnlyOptimal"}

\* ... and two of the vk::ImageLayout values that fall to their default label.
ImageLayouts == HandledLayouts \cup {"General", "PresentSrcKHR"}

QUEUE_FAMILY_IGNORED == "VK_QUEUE_FAMILY_IGNORED"

Images == {"image_a", "image_b"}

SubresourceRange(aspect, base_mip, levels, base_layer, layers) ==
    [aspectMask |-> aspect, baseMipLevel |-> base_mip, levelCount |-> levels,
     baseArrayLayer |-> base_layer, layerCount |-> layers]

\* What a caller passes besides the image and the two layouts.
BarrierArguments ==
    { [subresource_range |-> SubresourceRange({"Color"}, 0, 1, 0, 1),
       src_mask |-> {"TopOfPipe"}, dst_mask |-> {"Transfer"}],
      [subresource_range |-> SubresourceRange({"Depth", "Stencil"}, 1, 2, 0, 6),
       src_mask |-> {"Transfer"}, dst_mask |-> {"FragmentShader", "ComputeShader"}] }

\* vk::ImageMemoryBarrier barrier; and the six assignments that follow it.
\* The default constructor leaves both access masks empty.
NewBarrier(image, old_layout, new_layout, subresource_range) ==
    [srcAccessMask       |-> {},
     dstAccessMask       |-> {},
     oldLayout           |-> old_layout,
     newLayout           |-> new_layout,
     srcQueueFamilyIndex |-> QUEUE_FAMILY_IGNORED,
     dstQueueFamilyIndex |-> QUEUE_FAMILY_IGNORED,
     image               |-> image,
     subresourceRange    |-> subresource_range]

\* A faulty variant of SourceLayoutSwitch: the transfer cases exchanged.
SourceLayoutSwitchSwapped(barrier) ==
    CASE barrier.oldLayout = "Undefined" ->
            [barrier EXCEPT !.srcAccessMask = {}]
      [] barrier.oldLayout = "Preinitialized" ->
            [barrier EXCEPT !.srcAccessMask = {"HostWrite"}]
      [] barrier.oldLayout = "ColorAttachmentOptimal" ->
            [barrier EXCEPT !.srcAccessMask = {"ColorAttachmentWrite"}]
      [] barrier.oldLayout = "DepthStencilAttachmentOptimal" ->
            [barrier EXCEPT !.srcAccessMask = {"DepthStencilAttachmentWrite"}]
      [] barrier.oldLayout = "TransferSrcOptimal" ->
            [barrier EXCEPT !.srcAccessMask = {"TransferWrite"}]
      [] barrier.oldLayout = "TransferDstOptimal" ->
            [barrier EXCEPT !.srcAccessMask = {"TransferRead"}]
      [] barrier.oldLayout = "ShaderReadOnlyOptimal" ->
            [barrier EXCEPT !.srcAccessMask = {"ShaderRead"}]
      [] OTHER -> barrier

\* switch (old_layout)
SourceLayoutSwitch(barrier) ==
    CASE barrier.oldLayout = "Undefined" ->
            [barrier EXCEPT !.srcAccessMask = {}]
      [] barrier.oldLayout = "Preinitialized" ->
            [barrier EXCEPT !.srcAccessMask = {"HostWrite"}]
      [] barrier.oldLayout = "ColorAttachmentOptimal" ->
            [barrier EXCEPT !.srcAccessMask = {"ColorAttachmentWrite"}]
      [] barrier.oldLayout = "DepthStencilAttachmentOptimal" ->
            [barrier EXCEPT !.srcAccessMask = {"DepthStencilAttachmentWrite"}]
      [] barrier.oldLayout = "TransferSrcOptimal" ->
            [barrier EXCEPT !.srcAccessMask = {"TransferRead"}]
      [] barrier.oldLayout = "TransferDstOptimal" ->
            [barrier EXCEPT !.srcAccessMask = {"TransferWrite"}]
      [] barrier.oldLayout = "ShaderReadOnlyOptimal" ->
            [barrier EXCEPT !.srcAccessMask = {"ShaderRead"}]
      [] OTHER -> barrier

\* A faulty variant of TargetLayoutSwitch: the backfill applied whatever the source
\* mask holds.
TargetLayoutSwitchEagerBackfill(barrier) ==
    CASE barrier.newLayout = "TransferDstOptimal" ->
            [barrier EXCEPT !.dstAccessMask = {"TransferWrite"}]
      [] barrier.newLayout = "TransferSrcOptimal" ->
            [barrier EXCEPT !.dstAccessMask = {"TransferRead"}]
      [] barrier.newLayout = "ColorAttachmentOptimal" ->
            [barrier EXCEPT !.dstAccessMask = {"ColorAttachmentWrite"}]
      [] barrier.newLayout = "DepthStencilAttachmentOptimal" ->
            [barrier EXCEPT !.dstAccessMask =
                barrier.dstAccessMask \cup {"DepthStencilAttachmentWrite"}]
      [] barrier.newLayout = "ShaderReadOnlyOptimal" ->
            [barrier EXCEPT !.srcAccessMask = {"HostWrite", "TransferWrite"},
                            !.dstAccessMask = {"ShaderRead"}]
      [] OTHER -> barrier

\* A faulty variant of TargetLayoutSwitch: the depth/stencil case ORs into the
\* source mask's bits instead of the (empty) destination mask.
TargetLayoutSwitchDepthOrsSource(barrier) ==
    CASE barrier.newLayout = "TransferDstOptimal" ->
            [barrier EXCEPT !.dstAccessMask = {"TransferWrite"}]
      [] barrier.newLayout = "TransferSrcOptimal" ->
            [barrier EXCEPT !.dstAccessMask = {"TransferRead"}]
      [] barrier.newLayout = "ColorAttachmentOptimal" ->
            [barrier EXCEPT !.dstAccessMask = {"ColorAttachmentWrite"}]
      [] barrier.newLayout = "DepthStencilAttachmentOptimal" ->
            [barrier EXCEPT !.dstAccessMask =
                barrier.srcAccessMask \cup {"DepthStencilAttachmentWrite"}]
      [] barrier.newLayout = "ShaderReadOnlyOptimal" ->
            [barrier EXCEPT
                !.srcAccessMask = IF barrier.srcAccessMask = {}
                                  THEN {"HostWrite", "TransferWrite"}
                                  ELSE barrier.srcAccessMask,
                !.dstAccessMask = {"ShaderRead"}]
      [] OTHER -> barrier

\* switch (new_layout)
TargetLayoutSwitch(barrier) ==
    CASE barrier.newLayout = "TransferDstOptimal" ->
            [barrier EXCEPT !.dstAccessMask = {"TransferWrite"}]
      [] barrier.newLayout = "TransferSrcOptimal" ->
            [barrier EXCEPT !.dstAccessMask = {"TransferRead"}]
      [] barrier.newLayout = "ColorAttachmentOptimal" ->
            [barrier EXCEPT !.dstAccessMask = {"ColorAttachmentWrite"}]
      [] barrier.newLayout = "DepthStencilAttachmentOptimal" ->
            [barrier EXCEPT !.dstAccessMask =
                barrier.dstAccessMask \cup {"DepthStencilAttachmentWrite"}]
      [] barrier.newLayout = "ShaderReadOnlyOptimal" ->
            [barrier EXCEPT
                !.srcAccessMask = IF barrier.srcAccessMask = {}
                                  THEN {"HostWrite", "TransferWrite"}
                                  ELSE barrier.srcAccessMask,
                !.dstAccessMask = {"ShaderRead"}]
      [] OTHER -> barrier

\* A faulty variant of PipelineBarrier: the two stage masks exchanged.
PipelineBarrierStagesSwapped(src_stage_mask, dst_stage_mask, barrier) ==
    [srcStageMask        |-> dst_stage_mask,
     dstStageMask        |-> src_stage_mask,
     dependencyFlags     |-> {},
     memoryBarriers      |-> <<>>,
     bufferMemoryBarriers |-> <<>>,
     imageMemoryBarriers |-> <<barrier>>]

\* command_buffer.pipelineBarrier(src, dst, {}, nullptr, nullptr, barrier):
\* the command it records.
PipelineBarrier(src_stage_mask, dst_stage_mask, barrier) ==
    [srcStageMask        |-> src_stage_mask,
     dstStageMask        |-> dst_stage_mask,
     dependencyFlags     |-> {},
     memoryBarriers      |-> <<>>,
     bufferMemoryBarriers |-> <<>>,
     imageMemoryBarriers |-> <<barrier>>]

\* The command set_image_layout records.
set_image_layout_command(image, old_layout, new_layout, subresource_range, src_mask, dst_mask) ==
    PipelineBarrier(src_mask, dst_mask,
        TargetLayoutSwitch(SourceLayoutSwitch(
            NewBarrier(image, old_layout, new_layout, subresource_range))))

\* void set_image_layout(command_buffer, image, old_layout, new_layout,
\*                       subresource_range, src_mask, dst_mask)
set_image_layout(image, old_layout, new_layout, subresource_range, src_mask, dst_mask) ==
    /\ Len(command_buffer) < MaxCommands
    /\ command_buffer' = Append(command_buffer,
            set_image_layout_command(image, old_layout, new_layout,
                                     subresource_range, src_mask, dst_mask))
    /\ barrier_calls' = Append(barrier_calls,
            [function |-> "set_image_layout", image |-> image,
             old_layout |-> old_layout, new_layout |-> new_layout,
             subresource_range |-> subresource_range,
             src_mask |-> src_mask, dst_mask |-> dst_mask])

SetImageLayout ==
    /\ \E image \in Images, old_layout \in ImageLayouts,
          new_layout \in ImageLayouts, a \in BarrierArguments :
            set_image_layout(image, old_layout, new_layout,
                             a.subresource_range, a.src_mask, a.dst_mask)
    /\ UNCHANGED <<pl_vars, dsl_vars, vk_vars, ctx_vars, life_vars, gui_vars>>

\* What a caller of the overload with an aspect mask passes besides the two
\* layouts.
AspectArguments ==
    { [image |-> "image_a", aspect_mask |-> {"Color"},
       src_mask |-> {"AllCommands"}, dst_mask |-> {"AllCommands"}],
      [image |-> "image_b", aspect_mask |-> {"Depth", "Stencil"},
       src_mask |-> {"Transfer"}, dst_mask |-> {"EarlyFragmentTests"}] }

\* vk::ImageSubresourceRange subresource_range = {};
ZeroSubresourceRange == SubresourceRange({}, 0, 0, 0, 0)

\* A faulty variant of FixedSubresourceRange: layerCount is not assigned and
\* keeps the zero of the initialisation.
FixedSubresourceRangeWithoutLayer(aspect_mask) ==
    [ZeroSubresourceRange EXCEPT !.aspectMask = aspect_mask,
                                 !.baseMipLevel = 0,
                                 !.levelCount = 1]

\* The four assignments that follow the initialisation; baseArrayLayer is
\* not assigned.
FixedSubresourceRange(aspect_mask) ==
    [ZeroSubresourceRange EXCEPT !.aspectMask = aspect_mask,
                                 !.baseMipLevel = 0,
                                 !.levelCount = 1,
                                 !.layerCount = 1]

\* void set_image_layout(command_buffer, image, aspect_mask, old_layout,
\*                       new_layout, src_mask, dst_mask):
\* the overload for a fixed sub resource, which calls the one above.
set_image_layout_aspect(image, aspect_mask, old_layout, new_layout, src_mask, dst_mask) ==
    /\ Len(command_buffer) < MaxCommands
    /\ command_buffer' = Append(command_buffer,
            set_image_layout_command(image, old_layout, new_layout,
                                     FixedSubresourceRange(aspect_mask),
                                     src_mask, dst_mask))
    /\ barrier_calls' = Append(barrier_calls,
            [function |-> "set_image_layout(aspect_mask)", image |-> image,
             aspect_mask |-> aspect_mask,
             old_layout |-> old_layout, new_layout |-> new_layout,
             src_mask |-> src_mask, dst_mask |-> dst_mask])

SetImageLayoutAspect ==
    /\ \E old_layout \in ImageLayouts, new_layout \in ImageLayouts,
          a \in AspectArguments :
            set_image_layout_aspect(a.image, a.aspect_mask, old_layout,
                                    new_layout, a.src_mask, a.dst_mask)
    /\ UNCHANGED <<pl_vars, dsl_vars, vk_vars, ctx_vars, life_vars, gui_vars>>

\* What a caller of insert_image_memory_barrier passes besides the two
\* layouts.
InsertBarrierArguments ==
    { [image |-> "image_a",
       src_access_mask |-> {}, dst_access_mask |-> {"ColorAttachmentWrite"},
       src_stage_mask |-> {"TopOfPipe"},
       dst_stage_mask |-> {"ColorAttachmentOutput"},
       subresource_range |-> SubresourceRange({"Color"}, 0, 1, 0, 1)],
      [image |-> "image_b",
       src_access_mask |-> {"ShaderWrite"},
       dst_access_mask |-> {"ShaderRead", "InputAttachmentRead"},
       src_stage_mask |-> {"ComputeShader"},
       dst_stage_mask |-> {"FragmentShader"},
       subresource_range |-> SubresourceRange({"Depth", "Stencil"}, 1, 2, 0, 6)] }

\* vk::ImageMemoryBarrier{src_access_mask, dst_access_mask, old_layout,
\*     new_layout, src_queue_family, dst_queue_family, image, subresource_range}
ImageMemoryBarrier(src_access_mask, dst_access_mask, old_layout, new_layout, src_queue_family, dst_queue_family, image, subresource_range) ==
    [srcAccessMask       |-> src_access_mask,
     dstAccessMask       |-> dst_access_mask,
     oldLayout           |-> old_layout,
     newLayout           |-> new_layout,
     srcQueueFamilyIndex |-> src_queue_family,
     dstQueueFamilyIndex |-> dst_queue_family,
     image               |-> image,
     subresourceRange    |-> subresource_range]

\* A faulty variant of insert_image_memory_barrier_command: the barrier goes
\* through the two switches of set_image_layout.
insert_image_memory_barrier_command_switched(image, src_access_mask, dst_access_mask, old_layout, new_layout, src_stage_mask, dst_stage_mask, subresource_range) ==
    PipelineBarrier(src_stage_mask, dst_stage_mask,
        TargetLayoutSwitch(SourceLayoutSwitch(
            ImageMemoryBarrier(src_access_mask, dst_access_mask,
                               old_layout, new_layout,
                               QUEUE_FAMILY_IGNORED, QUEUE_FAMILY_IGNORED,
                               image, subresource_range))))

\* The command insert_image_memory_barrier records.
insert_image_memory_barrier_command(image, src_access_mask, dst_access_mask, old_layout, new_layout, src_stage_mask, dst_stage_mask, subresource_range) ==
    PipelineBarrier(src_stage_mask, dst_stage_mask,
        ImageMemoryBarrier(src_access_mask, dst_access_mask,
                           old_layout, new_layout,
                           QUEUE_FAMILY_IGNORED, QUEUE_FAMILY_IGNORED,
                           image, subresource_range))

\* void insert_image_memory_barrier(command_buffer, image, src_access_mask,
\*     dst_access_mask, old_layout, new_layout, src_stage_mask,
\*     dst_stage_mask, subresource_range)
insert_image_memory_barrier(image, src_access_mask, dst_access_mask, old_layout, new_layout, src_stage_mask, dst_stage_mask, subresource_range) ==
    /\ Len(command_buffer) < MaxCommands
    /\ command_buffer' = Append(command_buffer,
            insert_image_memory_barrier_command(image, src_access_mask,
                dst_access_mask, old_layout, new_layout, src_stage_mask,
                dst_stage_mask, subresource_range))
    /\ barrier_calls' = Append(barrier_calls,
            [function |-> "insert_image_memory_barrier", image |-> image,
             src_access_mask |-> src_access_mask,
             dst_access_mask |-> dst_access_mask,
             old_layout |-> old_layout, new_layout |-> new_layout,
             src_stage_mask |-> src_stage_mask,
             dst_stage_mask |-> dst_stage_mask,
             subresource_range |-> subresource_range])

InsertImageMemoryBarrier ==
    /\ \E old_layout \in ImageLayouts, new_layout \in ImageLayouts,
          a \in InsertBarrierArguments :
            insert_image_memory_barrier(a.image, a.src_access_mask,
                a.dst_access_mask, old_layout, new_layout, a.src_stage_mask,
                a.dst_stage_mask, a.subresource_range)
    /\ UNCHANGED <<pl_vars, dsl_vars, vk_vars, ctx_vars, life_vars, gui_vars>>

----------------------------------------------------------------------------
(* pipeline_layout.cpp: PipelineLayout *)

\* uint32_t values are pairs <<high half-word, low half-word>>, each half
\* in 0 .. 2^16 - 1, so that 32-bit arithmetic is exact.
HalfWord == 65536

u32(n) == <<n \div HalfWord, n % HalfWord>>

\* 2^32 - n, for 0 < n <= 2^16
u32_max_plus_one_minus(n) == <<HalfWord - 1, HalfWord - n>>

\* a + b in uint32_t: the carry out of the high half-word is lost
AddU32(a, b) ==
    LET lo == a[2] + b[2]
        hi == a[1] + b[1] + (lo \div HalfWord)
    IN  <<hi % HalfWord, lo % HalfWord>>

\* a <= b, a >= b on uint32_t
LeqU32(a, b) == a[1] < b[1] \/ (a[1] = b[1] /\ a[2] <= b[2])
GeqU32(a, b) == LeqU32(b, a)

SeqsUpTo(S, n) == UNION {[1..k -> S] : k \in 0..n}

SetIndices == 0..MaxSetIndex

\* The push-constant resources shader modules declare: [0,8) for the vertex
\* stage, the adjacent [8,16) and the enclosing [0,16) for the fragment stage,
\* and [0,16) for the vertex stage.
PushConstantResources ==
    { [stages |-> {"Vertex"},   offset |-> u32(0), size |-> u32(8)],
      [stages |-> {"Fragment"}, offset |-> u32(8), size |-> u32(8)],
      [stages |-> {"Fragment"}, offset |-> u32(0), size |-> u32(16)],
      [stages |-> {"Vertex"},   offset |-> u32(0), size |-> u32(16)] }

\* ShaderProgram: get_shader_sets() maps each set index that has resources to
\* them (here named by the index), get_resources(PushConstant) lists the
\* push-constant resources of all stages.
ShaderPrograms ==
    [shader_sets : SUBSET SetIndices,
     push_constants : SeqsUpTo(PushConstantResources, MaxPushConstants)]

\* ResourceCache::request_descriptor_set_layout(resources, dynamic): the cached
\* layout for these resources, and the device handle it owns.
request_descriptor_set_layout(resource_set, use_dynamic_resources) ==
    [resource_set |-> resource_set,
     use_dynamic_resources |-> use_dynamic_resources,
     handle |-> <<"VkDescriptorSetLayout", resource_set>>]

\* The orders in which a container holding the keys S may be iterated.
IterationOrders(S) ==
    {order \in [1..Cardinality(S) -> S] :
        \A i, j \in 1..Cardinality(S) : i # j => order[i] # order[j]}

NullHandle == "VK_NULL_HANDLE"

NoPipelineLayout ==
    [handle |-> NullHandle,
     shader_program |-> [shader_sets |-> {}, push_constants |-> <<>>],
     descriptor_set_layouts |-> <<>>,
     create_info |-> [pSetLayouts |-> <<>>, pPushConstantRanges |-> <<>>]]

\* for (auto &shader_set_it : shader_program.get_shader_sets())
\*     descriptor_set_layouts.emplace(shader_set_it.first, &request...)
EmplaceDescriptorSetLayouts(shader_program, use_dynamic_resources) ==
    [set_index \in shader_program.shader_sets |->
        request_descriptor_set_layout(set_index, use_dynamic_resources)]

\* A faulty variant of CollectPushConstantRanges: a resource covering the
\* bytes of an earlier one is merged into it, the stages OR-ed.
CollectPushConstantRangesMerged(shader_program) ==
    LET pcs == shader_program.push_constants
        same(j, k) == pcs[j].offset = pcs[k].offset /\ pcs[j].size = pcs[k].size
        firsts == {k \in DOMAIN pcs : \A j \in 1..(k - 1) : ~same(j, k)}
        nth(n) == CHOOSE k \in firsts : Cardinality({j \in firsts : j < k}) = n - 1
    IN  [n \in 1..Cardinality(firsts) |->
            [stageFlags |-> UNION {pcs[j].stages : j \in {i \in DOMAIN pcs : same(nth(n), i)}},
             offset     |-> pcs[nth(n)].offset,
             size       |-> pcs[nth(n)].size]]

\* push_constant_ranges.push_back({stages, offset, size}) per resource
CollectPushConstantRanges(shader_program) ==
    [k \in DOMAIN shader_program.push_constants |->
        [stageFlags |-> shader_program.push_constants[k].stages,
         offset     |-> shader_program.push_constants[k].offset,
         size       |-> shader_program.push_constants[k].size]]

\* PipelineLayout::PipelineLayout(device, shader_modules, use_dynamic_resources)
\* `order` is the order in which std::transform walks descriptor_set_layouts.
PipelineLayoutCtor(shader_program, use_dynamic_resources, order) ==
    LET layouts == EmplaceDescriptorSetLayouts(shader_program, use_dynamic_resources)
        handles == [k \in DOMAIN order |-> layouts[order[k]].handle]
        create_info == [pSetLayouts |-> handles,
                        pPushConstantRanges |-> CollectPushConstantRanges(shader_program)]
    IN  [handle |-> "VkPipelineLayout",
         shader_program |-> shader_program,
         descriptor_set_layouts |-> layouts,
         create_info |-> create_info]

\* A faulty variant of has_descriptor_set_layout: <= for <.
has_descriptor_set_layout_inclusive(this, set_index) ==
    set_index <= Cardinality(DOMAIN this.descriptor_set_layouts)

\* bool PipelineLayout::has_descriptor_set_layout(uint32_t set_index) const
has_descriptor_set_layout(this, set_index) ==
    set_index < Cardinality(DOMAIN this.descriptor_set_layouts)

NoDescriptorSetLayout ==
    [resource_set |-> -1, use_dynamic_resources |-> FALSE, handle |-> <<NullHandle, -1>>]

\* DescriptorSetLayout &PipelineLayout::get_descriptor_set_layout(set_index) const
\* descriptor_set_layouts.at(set_index) throws std::out_of_range for a key the
\* container does not hold.
get_descriptor_set_layout(this, set_index) ==
    IF set_index \in DOMAIN this.descriptor_set_layouts
    THEN [exception |-> "none", value |-> this.descriptor_set_layouts[set_index]]
    ELSE [exception |-> "std::out_of_range", value |-> NoDescriptorSetLayout]

RECURSIVE PushConstantStagesLoop(_, _, _, _)
\* The loop of get_push_constant_range_stage over resources k .. end.
PushConstantStagesLoop(resources, k, offset, size) ==
    IF k > Len(resources) THEN {}
    ELSE LET r == resources[k]
             rest == PushConstantStagesLoop(resources, k + 1, offset, size)
         IN  IF /\ GeqU32(offset, r.offset)
                /\ LeqU32(AddU32(offset, size), AddU32(r.offset, r.size))
             THEN r.stages \cup rest
             ELSE rest

\* vk::ShaderStageFlags PipelineLayout::get_push_constant_range_stage(offset, size) const
get_push_constant_range_stage(this, offset, size) ==
    PushConstantStagesLoop(this.shader_program.push_constants, 1, offset, size)

\* The arguments callers query with.
QueriedSetIndices == 0..(MaxSetIndex + 1)
QueriedOffsets == {u32(0), u32(8), u32_max_plus_one_minus(8)}
QueriedSizes == {u32(8), u32(16)}

ConstructPipelineLayout ==
    /\ pipeline_layout.handle = NullHandle
    /\ \E shader_program \in ShaderPrograms, use_dynamic_resources \in BOOLEAN :
       \E order \in IterationOrders(shader_program.shader_sets) :
            pipeline_layout' = PipelineLayoutCtor(shader_program, use_dynamic_resources, order)
    /\ pl_call' = [function |-> "PipelineLayout"]
    /\ UNCHANGED <<barrier_vars, dsl_vars, vk_vars, ctx_vars, life_vars, gui_vars>>

HasDescriptorSetLayout ==
    /\ pipeline_layout.handle # NullHandle
    /\ \E set_index \in QueriedSetIndices :
        pl_call' = [function |-> "has_descriptor_set_layout", set_index |-> set_index,
                    result |-> has_descriptor_set_layout(pipeline_layout, set_index)]
    /\ UNCHANGED <<pipeline_layout, barrier_vars, dsl_vars, vk_vars, ctx_vars, life_vars, gui_vars>>

GetDescriptorSetLayout ==
    /\ pipeline_layout.handle # NullHandle
    /\ \E set_index \in QueriedSetIndices :
        pl_call' = [function |-> "get_descriptor_set_layout", set_index |-> set_index,
                    result |-> get_descriptor_set_layout(pipeline_layout, set_index)]
    /\ UNCHANGED <<pipeline_layout, barrier_vars, dsl_vars, vk_vars, ctx_vars, life_vars, gui_vars>>

GetPushConstantRangeStage ==
    /\ pipeline_layout.handle # NullHandle
    /\ \E offset \in QueriedOffsets, size \in QueriedSizes :
        pl_call' = [function |-> "get_push_constant_range_stage",
                    offset |-> offset, size |-> size,
                    result |-> get_push_constant_range_stage(pipeline_layout, offset, size)]
    /\ UNCHANGED <<pipeline_layout, barrier_vars, dsl_vars, vk_vars, ctx_vars, life_vars, gui_vars>>

----------------------------------------------------------------------------
(* descriptor_set_layout.cpp: DescriptorSetLayout *)

\* A faulty variant of SkippedResourceTypes: input attachments skipped with
\* the stage inputs.
SkippedResourceTypesWithInputAttachment ==
    {"Input", "InputAttachment", "Output", "PushConstant", "SpecializationConstant"}

\* The resource types without a binding point ...
SkippedResourceTypes == {"Input", "Output", "PushConstant", "SpecializationConstant"}

\* ... those find_descriptor_type converts ...
ConvertedResourceTypes ==
    {"InputAttachment", "Image", "ImageSampler", "ImageStorage", "Sampler",
     "BufferUniform", "BufferStorage"}

\* ... and a value of ShaderResourceType that is neither.
OtherResourceType == "<other>"

ShaderResource(name, type, binding, array_size, stages) ==
    [name |-> name, type |-> type, binding |-> binding,
     array_size |-> array_size, stages |-> stages]

\* The resources resource sets are made of: two names, two bindings, two
\* stages, and a sampler, an array of uniform buffers or a stage input.
ResourcePool ==
    { ShaderResource(name, ta[1], binding, ta[2], stages) :
        name \in {"a", "b"}, binding \in {0, 1},
        stages \in {{"Vertex"}, {"Fragment"}},
        ta \in {<<"ImageSampler", 1>>, <<"BufferUniform", 2>>, <<"Input", 1>>} }

\* One resource of every type.
ResourceOfEachType ==
    { ShaderResource("c", type, 2, 1, {"Compute"}) :
        type \in SkippedResourceTypes \cup ConvertedResourceTypes \cup {OtherResourceType} }

ResourceSets ==
    SeqsUpTo(ResourcePool, MaxResources)
        \cup {<<r>> : r \in ResourceOfEachType}
        \cup {<<r1, r2>> : r1, r2 \in ResourceOfEachType}

\* A faulty variant of find_descriptor_type: the Sampler case missing.
find_descriptor_type_without_sampler(resource_type, dynamic) ==
    CASE resource_type = "InputAttachment" -> [exception |-> "none", value |-> "InputAttachment"]
      [] resource_type = "Image"        -> [exception |-> "none", value |-> "SampledImage"]
      [] resource_type = "ImageSampler" -> [exception |-> "none", value |-> "CombinedImageSampler"]
      [] resource_type = "ImageStorage" -> [exception |-> "none", value |-> "StorageImage"]
      [] resource_type = "BufferUniform" ->
            IF dynamic THEN [exception |-> "none", value |-> "UniformBufferDynamic"]
                       ELSE [exception |-> "none", value |-> "UniformBuffer"]
      [] resource_type = "BufferStorage" ->
            IF dynamic THEN [exception |-> "none", value |-> "StorageBufferDynamic"]
                       ELSE [exception |-> "none", value |-> "StorageBuffer"]
      [] OTHER -> [exception |-> "std::runtime_error", value |-> "none"]

\* A faulty variant of find_descriptor_type: the dynamic flag inverted.
find_descriptor_type_inverted(resource_type, dynamic) ==
    CASE resource_type = "InputAttachment" -> [exception |-> "none", value |-> "InputAttachment"]
      [] resource_type = "Image"        -> [exception |-> "none", value |-> "SampledImage"]
      [] resource_type = "ImageSampler" -> [exception |-> "none", value |-> "CombinedImageSampler"]
      [] resource_type = "ImageStorage" -> [exception |-> "none", value |-> "StorageImage"]
      [] resource_type = "Sampler"      -> [exception |-> "none", value |-> "Sampler"]
      [] resource_type = "BufferUniform" ->
            IF ~dynamic THEN [exception |-> "none", value |-> "UniformBufferDynamic"]
                        ELSE [exception |-> "none", value |-> "UniformBuffer"]
      [] resource_type = "BufferStorage" ->
            IF ~dynamic THEN [exception |-> "none", value |-> "StorageBufferDynamic"]
                        ELSE [exception |-> "none", value |-> "StorageBuffer"]
      [] OTHER -> [exception |-> "std::runtime_error", value |-> "none"]

\* inline vk::DescriptorType find_descriptor_type(ShaderResourceType, bool dynamic)
find_descriptor_type(resource_type, dynamic) ==
    CASE resource_type = "InputAttachment" -> [exception |-> "none", value |-> "InputAttachment"]
      [] resource_type = "Image"        -> [exception |-> "none", value |-> "SampledImage"]
      [] resource_type = "ImageSampler" -> [exception |-> "none", value |-> "CombinedImageSampler"]
      [] resource_type = "ImageStorage" -> [exception |-> "none", value |-> "StorageImage"]
      [] resource_type = "Sampler"      -> [exception |-> "none", value |-> "Sampler"]
      [] resource_type = "BufferUniform" ->
            IF dynamic THEN [exception |-> "none", value |-> "UniformBufferDynamic"]
                       ELSE [exception |-> "none", value |-> "UniformBuffer"]
      [] resource_type = "BufferStorage" ->
            IF dynamic THEN [exception |-> "none", value |-> "StorageBufferDynamic"]
                       ELSE [exception |-> "none", value |-> "StorageBuffer"]
      [] OTHER -> [exception |-> "std::runtime_error", value |-> "none"]

\* vk::DescriptorSetLayoutBinding layout_binding; and its four assignments
LayoutBinding(resource, descriptor_type) ==
    [binding         |-> resource.binding,
     descriptorCount |-> resource.array_size,
     descriptorType  |-> descriptor_type,
     stageFlags      |-> resource.stages]

\* A faulty variant of Emplace: a key already held takes the new value.
EmplaceOverwrites(map, key, value) ==
    [k \in DOMAIN map \cup {key} |-> IF k = key THEN value ELSE map[k]]

\* map.emplace(key, value) on a container of unique keys: a key already held
\* keeps its value.
Emplace(map, key, value) ==
    IF key \in DOMAIN map THEN map ELSE map @@ (key :> value)

UnconstructedDescriptorSetLayout ==
    [handle |-> NullHandle, bindings |-> <<>>,
     bindings_lookup |-> <<>>, resources_lookup |-> <<>>, exception |-> "none"]

RECURSIVE DescriptorSetLayoutLoop(_, _, _, _)
\* The loop of the constructor over resources k .. end; `this` holds the
\* members filled so far.  An exception leaves the loop and the constructor.
DescriptorSetLayoutLoop(this, resource_set, k, use_dynamic_resources) ==
    IF k > Len(resource_set) THEN this
    ELSE LET resource == resource_set[k] IN
         IF resource.type \in SkippedResourceTypes
         THEN DescriptorSetLayoutLoop(this, resource_set, k + 1, use_dynamic_resources)
         ELSE LET found == find_descriptor_type(resource.type, use_dynamic_resources)
                  layout_binding == LayoutBinding(resource, found.value)
              IN  IF found.exception # "none"
                  THEN [this EXCEPT !.exception = found.exception]
                  ELSE DescriptorSetLayoutLoop(
                        [this EXCEPT
                            !.bindings = Append(@, layout_binding),
                            !.bindings_lookup = Emplace(@, resource.binding, layout_binding),
                            !.resources_lookup = Emplace(@, resource.name, resource.binding)],
                        resource_set, k + 1, use_dynamic_resources)

\* DescriptorSetLayout::DescriptorSetLayout(device, resource_set, use_dynamic_resources)
\* createDescriptorSetLayout is reached only when the loop did not throw.
DescriptorSetLayoutCtor(resource_set, use_dynamic_resources) ==
    LET this == DescriptorSetLayoutLoop(UnconstructedDescriptorSetLayout,
                                        resource_set, 1, use_dynamic_resources)
    IN  IF this.exception # "none"
        THEN [UnconstructedDescriptorSetLayout EXCEPT !.exception = this.exception]
        ELSE [this EXCEPT !.handle =
                <<"VkDescriptorSetLayout", [pBindings |-> this.bindings]>>]

NullLayoutBinding ==
    [binding |-> -1, descriptorCount |-> 0, descriptorType |-> "none", stageFlags |-> {}]

\* A faulty variant of get_layout_binding_by_index: the entry is taken from the
\* bindings vector, last match first.
get_layout_binding_from_vector(this, binding_index) ==
    LET matches == {k \in DOMAIN this.bindings : this.bindings[k].binding = binding_index}
    IN  IF matches = {}
        THEN [null |-> TRUE, value |-> NullLayoutBinding]
        ELSE [null |-> FALSE,
              value |-> this.bindings[CHOOSE k \in matches : \A m \in matches : m <= k]]

\* std::unique_ptr<...> DescriptorSetLayout::get_layout_binding(uint32_t binding_index) const
get_layout_binding_by_index(this, binding_index) ==
    IF binding_index \notin DOMAIN this.bindings_lookup
    THEN [null |-> TRUE, value |-> NullLayoutBinding]
    ELSE [null |-> FALSE, value |-> this.bindings_lookup[binding_index]]

\* A faulty variant of get_layout_binding_by_name: a name registered against
\* binding 0 is taken for a miss.
get_layout_binding_by_name_zero_is_absent(this, name) ==
    IF name \notin DOMAIN this.resources_lookup \/ this.resources_lookup[name] = 0
    THEN [null |-> TRUE, value |-> NullLayoutBinding]
    ELSE get_layout_binding_by_index(this, this.resources_lookup[name])

\* std::unique_ptr<...> DescriptorSetLayout::get_layout_binding(const std::string &name) const
get_layout_binding_by_name(this, name) ==
    IF name \notin DOMAIN this.resources_lookup
    THEN [null |-> TRUE, value |-> NullLayoutBinding]
    ELSE get_layout_binding_by_index(this, this.resources_lookup[name])

QueriedBindings == {0, 1, 2, 3}
QueriedNames == {"a", "b", "c", "d"}

ConstructDescriptorSetLayout ==
    /\ dsl.handle = NullHandle /\ dsl.exception = "none"
    /\ \E resource_set \in ResourceSets, use_dynamic_resources \in BOOLEAN :
        /\ dsl' = DescriptorSetLayoutCtor(resource_set, use_dynamic_resources)
        /\ dsl_input' = [resource_set |-> resource_set,
                         use_dynamic_resources |-> use_dynamic_resources]
    /\ dsl_call' = [function |-> "DescriptorSetLayout"]
    /\ UNCHANGED <<barrier_vars, pl_vars, vk_vars, ctx_vars, life_vars, gui_vars>>

GetLayoutBindingByIndex ==
    /\ dsl.handle # NullHandle
    /\ \E binding_index \in QueriedBindings :
        dsl_call' = [function |-> "get_layout_binding(uint32_t)",
                     binding_index |-> binding_index,
                     result |-> get_layout_binding_by_index(dsl, binding_index)]
    /\ UNCHANGED <<dsl, dsl_input, barrier_vars, pl_vars, vk_vars, ctx_vars, life_vars, gui_vars>>

GetLayoutBindingByName ==
    /\ dsl.handle # NullHandle
    /\ \E name \in QueriedNames :
        dsl_call' = [function |-> "get_layout_binding(string)",
                     name |-> name,
                     result |-> get_layout_binding_by_name(dsl, name)]
    /\ UNCHANGED <<dsl, dsl_input, barrier_vars, pl_vars, vk_vars, ctx_vars, life_vars, gui_vars>>

----------------------------------------------------------------------------
(* vk_common.cpp: classifiers of formats and descriptor types *)

\* The case labels of the switch of get_bits_per_pixel that return a size,
\* group by group in the order of the source, each with the value returned.
BitsPerPixelCases ==
    <<
      <<
        {"R4G4UnormPack8"},
        8>>,
      <<
        {"R4G4B4A4UnormPack16", "B4G4R4A4UnormPack16", "R5G6B5UnormPack16",
         "B5G6R5UnormPack16", "R5G5B5A1UnormPack16", "B5G5R5A1UnormPack16",
         "A1R5G5B5UnormPack16"},
        16>>,
      <<
        {"R8Unorm", "R8Snorm", "R8Uscaled", "R8Sscaled", "R8Uint", "R8Sint",
         "R8Srgb"},
        8>>,
      <<
        {"R8G8Unorm", "R8G8Snorm", "R8G8Uscaled", "R8G8Sscaled", "R8G8Uint",
         "R8G8Sint", "R8G8Srgb"},
        16>>,
      <<
        {"R8G8B8Unorm", "R8G8B8Snorm", "R8G8B8Uscaled", "R8G8B8Sscaled",
         "R8G8B8Uint", "R8G8B8Sint", "R8G8B8Srgb", "B8G8R8Unorm",
         "B8G8R8Snorm", "B8G8R8Uscaled", "B8G8R8Sscaled", "B8G8R8Uint",
         "B8G8R8Sint", "B8G8R8Srgb"},
        24>>,
      <<
        {"R8G8B8A8Unorm", "R8G8B8A8Snorm", "R8G8B8A8Uscaled",
         "R8G8B8A8Sscaled", "R8G8B8A8Uint", "R8G8B8A8Sint", "R8G8B8A8Srgb",
         "B8G8R8A8Unorm", "B8G8R8A8Snorm", "B8G8R8A8Uscaled",
         "B8G8R8A8Sscaled", "B8G8R8A8Uint", "B8G8R8A8Sint", "B8G8R8A8Srgb",
         "A8B8G8R8UnormPack32", "A8B8G8R8SnormPack32",
         "A8B8G8R8UscaledPack32", "A8B8G8R8SscaledPack32",
         "A8B8G8R8UintPack32", "A8B8G8R8SintPack32", "A8B8G8R8SrgbPack32"},
        32>>,
      <<
        {"A2R10G10B10UnormPack32", "A2R10G10B10SnormPack32",
         "A2R10G10B10UscaledPack32", "A2R10G10B10SscaledPack32",
         "A2R10G10B10UintPack32", "A2R10G10B10SintPack32",
         "A2B10G10R10UnormPack32", "A2B10G10R10SnormPack32",
         "A2B10G10R10UscaledPack32", "A2B10G10R10SscaledPack32",
         "A2B10G10R10UintPack32", "A2B10G10R10SintPack32"},
        32>>,
      <<
        {"R16Unorm", "R16Snorm", "R16Uscaled", "R16Sscaled", "R16Uint",
         "R16Sint", "R16Sfloat"},
        16>>,
      <<
        {"R16G16Unorm", "R16G16Snorm", "R16G16Uscaled", "R16G16Sscaled",
         "R16G16Uint", "R16G16Sint", "R16G16Sfloat"},
        32>>,
      <<
        {"R16G16B16Unorm", "R16G16B16Snorm", "R16G16B16Uscaled",
         "R16G16B16Sscaled", "R16G16B16Uint", "R16G16B16Sint",
         "R16G16B16Sfloat"},
        48>>,
      <<
        {"R16G16B16A16Unorm", "R16G16B16A16Snorm", "R16G16B16A16Uscaled",
         "R16G16B16A16Sscaled", "R16G16B16A16Uint", "R16G16B16A16Sint",
         "R16G16B16A16Sfloat"},
        64>>,
      <<
        {"R32Uint", "R32Sint", "R32Sfloat"},
        32>>,
      <<
        {"R32G32Uint", "R32G32Sint", "R32G32Sfloat"},
        64>>,
      <<
        {"R32G32B32Uint", "R32G32B32Sint", "R32G32B32Sfloat"},
        96>>,
      <<
        {"R32G32B32A32Uint", "R32G32B32A32Sint", "R32G32B32A32Sfloat"},
        128>>,
      <<
        {"R64Uint", "R64Sint", "R64Sfloat"},
        64>>,
      <<
        {"R64G64Uint", "R64G64Sint", "R64G64Sfloat"},
        128>>,
      <<
        {"R64G64B64Uint", "R64G64B64Sint", "R64G64B64Sfloat"},
        192>>,
      <<
        {"R64G64B64A64Uint", "R64G64B64A64Sint", "R64G64B64A64Sfloat"},
        256>>,
      <<
        {"B10G11R11UfloatPack32"},
        32>>,
      <<
        {"E5B9G9R9UfloatPack32"},
        32>>,
      <<
        {"D16Unorm"},
        16>>,
      <<
        {"X8D24UnormPack32"},
        32>>,
      <<
        {"D32Sfloat"},
        32>>,
      <<
        {"S8Uint"},
        8>>,
      <<
        {"D16UnormS8Uint"},
        24>>,
      <<
        {"D24UnormS8Uint"},
        32>>,
      <<
        {"D32SfloatS8Uint"},
        40>>
    >>

ListedFormats == UNION {BitsPerPixelCases[i][1] : i \in DOMAIN BitsPerPixelCases}

\* Values of vk::Format the switch does not name: some of the
\* block-compressed formats.
BlockCompressedFormats ==
    {"Bc1RgbUnormBlock", "Bc1RgbaSrgbBlock", "Bc3UnormBlock", "Bc5SnormBlock",
     "Bc7UnormBlock", "Etc2R8G8B8UnormBlock", "Etc2R8G8B8A8SrgbBlock",
     "EacR11UnormBlock", "EacR11G11SnormBlock", "Astc4x4UnormBlock",
     "Astc12x12SrgbBlock"}

Formats == ListedFormats \cup {"Undefined"} \cup BlockCompressedFormats

\* A faulty variant of get_bits_per_pixel: the case of eD32SfloatS8Uint is
\* missing, so that format falls to the default label.
get_bits_per_pixel_without_d32s8(format) ==
    IF format # "D32SfloatS8Uint"
       /\ \E i \in DOMAIN BitsPerPixelCases : format \in BitsPerPixelCases[i][1]
    THEN LET i == CHOOSE j \in DOMAIN BitsPerPixelCases :
                      format \in BitsPerPixelCases[j][1]
         IN  BitsPerPixelCases[i][2]
    ELSE -1

\* get_bits_per_pixel: the value of the case that names the format; -1 at
\* "case eUndefined: default:".
get_bits_per_pixel(format) ==
    IF \E i \in DOMAIN BitsPerPixelCases : format \in BitsPerPixelCases[i][1]
    THEN LET i == CHOOSE j \in DOMAIN BitsPerPixelCases :
                      format \in BitsPerPixelCases[j][1]
         IN  BitsPerPixelCases[i][2]
    ELSE -1

is_depth_only_format(format) ==
    \/ format = "D16Unorm"
    \/ format = "D32Sfloat"

\* A faulty variant of is_depth_stencil_format that does not ask
\* is_depth_only_format.
is_depth_stencil_format_combined_only(format) ==
    \/ format = "D16UnormS8Uint"
    \/ format = "D24UnormS8Uint"
    \/ format = "D32SfloatS8Uint"

is_depth_stencil_format(format) ==
    \/ format = "D16UnormS8Uint"
    \/ format = "D24UnormS8Uint"
    \/ format = "D32SfloatS8Uint"
    \/ is_depth_only_format(format)

\* The values of vk::DescriptorType.
DescriptorTypes ==
    {"Sampler", "CombinedImageSampler", "SampledImage", "StorageImage",
     "UniformTexelBuffer", "StorageTexelBuffer", "UniformBuffer",
     "StorageBuffer", "UniformBufferDynamic", "StorageBufferDynamic",
     "InputAttachment"}

\* A faulty variant of is_dynamic_buffer_descriptor_type that tests the
\* static storage buffer in place of the dynamic one.
is_dynamic_buffer_descriptor_type_static_storage(descriptor_type) ==
    \/ descriptor_type = "StorageBuffer"
    \/ descriptor_type = "UniformBufferDynamic"

is_dynamic_buffer_descriptor_type(descriptor_type) ==
    \/ descriptor_type = "StorageBufferDynamic"
    \/ descriptor_type = "UniformBufferDynamic"

is_buffer_descriptor_type(descriptor_type) ==
    \/ descriptor_type = "StorageBuffer"
    \/ descriptor_type = "UniformBuffer"
    \/ is_dynamic_buffer_descriptor_type(descriptor_type)

\* A faulty variant of depth_formats: lowest precision first.
depth_formats_ascending ==
    <<"D16Unorm", "D16UnormS8Uint", "D24UnormS8Uint", "D32Sfloat",
      "D32SfloatS8Uint">>

\* std::vector<vk::Format> depth_formats of get_supported_depth_format
depth_formats ==
    <<"D32SfloatS8Uint", "D32Sfloat", "D24UnormS8Uint", "D16UnormS8Uint",
      "D16Unorm">>

\* The optimalTilingFeatures a physical device may report for a format.
OptimalTilingFeatures ==
    {{}, {"SampledImage"}, {"SampledImage", "DepthStencilAttachment"}}

\* The physical devices: what getFormatProperties(format) reports for each
\* of the depth formats.
PhysicalDevices ==
    [{depth_formats[k] : k \in DOMAIN depth_formats} -> OptimalTilingFeatures]

RECURSIVE SupportedDepthFormatLoop(_, _)
\* The loop of get_supported_depth_format over depth_formats[k ..].
SupportedDepthFormatLoop(physical_device, k) ==
    IF k > Len(depth_formats) THEN "Undefined"
    ELSE IF physical_device[depth_formats[k]] \cap {"DepthStencilAttachment"} # {}
         THEN depth_formats[k]
         ELSE SupportedDepthFormatLoop(physical_device, k + 1)

\* vk::Format get_supported_depth_format(vk::PhysicalDevice physical_device)
get_supported_depth_format(physical_device) ==
    SupportedDepthFormatLoop(physical_device, 1)

GetSupportedDepthFormat ==
    \E physical_device \in PhysicalDevices :
        /\ vk_call' = [function |-> "get_supported_depth_format",
                       physical_device |-> physical_device,
                       result |-> get_supported_depth_format(physical_device)]
        /\ UNCHANGED <<barrier_vars, pl_vars, dsl_vars, ctx_vars, life_vars, gui_vars>>

\* std::vector<LoadStoreInfo> gbuffer::get_load_all_store_swapchain():
\* four elements, both members of each assigned: swapchain, depth, albedo,
\* normal.
get_load_all_store_swapchain ==
    << [load_op |-> "DontCare", store_op |-> "DontCare"],
       [load_op |-> "Load",     store_op |-> "DontCare"],
       [load_op |-> "Load",     store_op |-> "DontCare"],
       [load_op |-> "Load",     store_op |-> "DontCare"] >>

GetLoadAllStoreSwapchain ==
    /\ vk_call' = [function |-> "gbuffer::get_load_all_store_swapchain",
                   result |-> get_load_all_store_swapchain]
    /\ UNCHANGED <<barrier_vars, pl_vars, dsl_vars, ctx_vars, life_vars, gui_vars>>

GetBitsPerPixel ==
    \E format \in Formats :
        /\ vk_call' = [function |-> "get_bits_per_pixel",
                       format |-> format,
                       result |-> get_bits_per_pixel(format)]
        /\ UNCHANGED <<barrier_vars, pl_vars, dsl_vars, ctx_vars, life_vars, gui_vars>>

IsDepthOnlyFormat ==
    \E format \in Formats :
        /\ vk_call' = [function |-> "is_depth_only_format",
                       format |-> format,
                       result |-> is_depth_only_format(format)]
        /\ UNCHANGED <<barrier_vars, pl_vars, dsl_vars, ctx_vars, life_vars, gui_vars>>

IsDepthStencilFormat ==
    \E format \in Formats :
        /\ vk_call' = [function |-> "is_depth_stencil_format",
                       format |-> format,
                       result |-> is_depth_stencil_format(format)]
        /\ UNCHANGED <<barrier_vars, pl_vars, dsl_vars, ctx_vars, life_vars, gui_vars>>

IsDynamicBufferDescriptorType ==
    \E descriptor_type \in DescriptorTypes :
        /\ vk_call' = [function |-> "is_dynamic_buffer_descriptor_type",
                       descriptor_type |-> descriptor_type,
                       result |->
                           is_dynamic_buffer_descriptor_type(descriptor_type)]
        /\ UNCHANGED <<barrier_vars, pl_vars, dsl_vars, ctx_vars, life_vars, gui_vars>>

IsBufferDescriptorType ==
    \E descriptor_type \in DescriptorTypes :
        /\ vk_call' = [function |-> "is_buffer_descriptor_type",
                       descriptor_type |-> descriptor_type,
                       result |-> is_buffer_descriptor_type(descriptor_type)]
        /\ UNCHANGED <<barrier_vars, pl_vars, dsl_vars, ctx_vars, life_vars, gui_vars>>

----------------------------------------------------------------------------
(* vk_common.cpp: set_image_layout called from several contexts at once *)

\* calls one context makes
MaxContextCalls == 2

Contexts == {"context_1", "context_2"}

\* What the contexts pass to set_image_layout.
ContextArguments ==
    { [image |-> "image_a", old_layout |-> "Undefined",
       new_layout |-> "ShaderReadOnlyOptimal",
       subresource_range |-> SubresourceRange({"Color"}, 0, 1, 0, 1),
       src_mask |-> {"TopOfPipe"}, dst_mask |-> {"FragmentShader"}],
      [image |-> "image_a", old_layout |-> "ColorAttachmentOptimal",
       new_layout |-> "TransferSrcOptimal",
       subresource_range |-> SubresourceRange({"Color"}, 0, 1, 0, 1),
       src_mask |-> {"ColorAttachmentOutput"}, dst_mask |-> {"Transfer"}],
      [image |-> "image_b", old_layout |-> "TransferDstOptimal",
       new_layout |-> "DepthStencilAttachmentOptimal",
       subresource_range |-> SubresourceRange({"Depth", "Stencil"}, 1, 2, 0, 6),
       src_mask |-> {"Transfer"}, dst_mask |-> {"EarlyFragmentTests"}],
      [image |-> "image_b", old_layout |-> "General",
       new_layout |-> "PresentSrcKHR",
       subresource_range |-> SubresourceRange({"Color"}, 0, 1, 0, 1),
       src_mask |-> {"AllCommands"}, dst_mask |-> {"BottomOfPipe"}] }

\* A context: where it is in set_image_layout, the arguments and the local
\* `barrier` of the call it is in, its own command buffer and the calls it
\* made.
IdleContext ==
    [pc |-> "idle", arguments |-> <<>>, barrier |-> <<>>,
     command_buffer |-> <<>>, calls |-> <<>>]

\* A faulty variant of LocalBarrier: the contexts that are inside a call read
\* one and the same `barrier`.
LocalBarrierStatic(context) ==
    contexts[CHOOSE c \in Contexts : contexts[c].pc # "idle"].barrier

\* The `barrier` that set_image_layout reads in a context: a local of the
\* call.
LocalBarrier(context) == contexts[context].barrier

\* The call and its vk::ImageMemoryBarrier barrier with its six assignments.
ContextCall(context) ==
    /\ contexts[context].pc = "idle"
    /\ Len(contexts[context].calls) < MaxContextCalls
    /\ \E a \in ContextArguments :
        contexts' = [contexts EXCEPT
            ![context].pc = "switch (old_layout)",
            ![context].arguments = a,
            ![context].barrier = NewBarrier(a.image, a.old_layout, a.new_layout,
                                            a.subresource_range),
            ![context].calls = Append(@, a)]

ContextSourceLayoutSwitch(context) ==
    /\ contexts[context].pc = "switch (old_layout)"
    /\ contexts' = [contexts EXCEPT
            ![context].pc = "switch (new_layout)",
            ![context].barrier = SourceLayoutSwitch(LocalBarrier(context))]

ContextTargetLayoutSwitch(context) ==
    /\ contexts[context].pc = "switch (new_layout)"
    /\ contexts' = [contexts EXCEPT
            ![context].pc = "pipelineBarrier",
            ![context].barrier = TargetLayoutSwitch(LocalBarrier(context))]

\* Each context records into its own command buffer.
ContextPipelineBarrier(context) ==
    /\ contexts[context].pc = "pipelineBarrier"
    /\ contexts' = [contexts EXCEPT
            ![context].pc = "idle",
            ![context].command_buffer =
                Append(@, PipelineBarrier(contexts[context].arguments.src_mask,
                                          contexts[context].arguments.dst_mask,
                                          LocalBarrier(context)))]

ConcurrentCall ==
    /\ \E context \in Contexts : ContextCall(context)
    /\ UNCHANGED <<barrier_vars, pl_vars, dsl_vars, vk_vars, life_vars, gui_vars>>

ConcurrentSourceLayoutSwitch ==
    /\ \E context \in Contexts : ContextSourceLayoutSwitch(context)
    /\ UNCHANGED <<barrier_vars, pl_vars, dsl_vars, vk_vars, life_vars, gui_vars>>

ConcurrentTargetLayoutSwitch ==
    /\ \E context \in Contexts : ContextTargetLayoutSwitch(context)
    /\ UNCHANGED <<barrier_vars, pl_vars, dsl_vars, vk_vars, life_vars, gui_vars>>

ConcurrentPipelineBarrier ==
    /\ \E context \in Contexts : ContextPipelineBarrier(context)
    /\ UNCHANGED <<barrier_vars, pl_vars, dsl_vars, vk_vars, life_vars, gui_vars>>

----------------------------------------------------------------------------
(* Constructors, move constructors and destructors of the two layouts *)

\* layout objects a program constructs, by a constructor or a move
MaxObjects == 3

\* What the constructors are called with.
LifetimeResourceSets ==
    { <<ShaderResource("a", "ImageSampler", 0, 1, {"Fragment"})>>,
      <<ShaderResource("a", "BufferUniform", 0, 2, {"Vertex"}),
        ShaderResource("b", "ImageSampler", 1, 1, {"Fragment"})>> }

LifetimeShaderPrograms ==
    { [shader_sets |-> {0}, push_constants |-> <<>>],
      [shader_sets |-> {0, 1},
       push_constants |-> <<[stages |-> {"Vertex"}, offset |-> u32(0), size |-> u32(8)]>>] }

\* The n-th handle the device creates.
DeviceHandle(n) == <<"handle", n>>

\* The states a moved-from std::unordered_map may be left in: valid but
\* unspecified; empty, or untouched.
MovedFromMap(map) == {<<>>, map}

\* A faulty variant of MovedFromHandle: the source keeps its handle.
MovedFromHandleKept(handle) == handle

\* static_cast<vk::DescriptorSetLayout &&>(other) = nullptr; and
\* static_cast<vk::PipelineLayout &>(other) = nullptr;
MovedFromHandle(handle) == NullHandle

\* DescriptorSetLayout::DescriptorSetLayout(device, resource_set, dynamic):
\* the object, holding the handle the device has just created.
NewDescriptorSetLayout(resource_set, use_dynamic_resources) ==
    [kind |-> "DescriptorSetLayout", alive |-> TRUE,
     handle |-> DeviceHandle(device.created + 1),
     bindings |-> DescriptorSetLayoutCtor(resource_set, use_dynamic_resources).bindings,
     bindings_lookup |->
        DescriptorSetLayoutCtor(resource_set, use_dynamic_resources).bindings_lookup,
     resources_lookup |->
        DescriptorSetLayoutCtor(resource_set, use_dynamic_resources).resources_lookup]

\* PipelineLayout::PipelineLayout(device, shader_modules, dynamic)
NewPipelineLayout(shader_program, use_dynamic_resources, order) ==
    [kind |-> "PipelineLayout", alive |-> TRUE,
     handle |-> DeviceHandle(device.created + 1),
     shader_program |-> shader_program,
     descriptor_set_layouts |->
        PipelineLayoutCtor(shader_program, use_dynamic_resources, order).descriptor_set_layouts]

\* The move constructors: the members the new object takes from `other` ...
MoveTarget(other) == other

\* ... and the states they may leave `other` in.  A moved-from std::vector is
\* empty; ShaderProgram is moved member by member.
MoveSources(other) ==
    IF other.kind = "DescriptorSetLayout"
    THEN { [other EXCEPT !.handle = MovedFromHandle(@),
                         !.bindings = <<>>,
                         !.bindings_lookup = bl,
                         !.resources_lookup = rl] :
                bl \in MovedFromMap(other.bindings_lookup),
                rl \in MovedFromMap(other.resources_lookup) }
    ELSE { [other EXCEPT !.handle = MovedFromHandle(@),
                         !.shader_program =
                            [shader_sets |-> {}, push_constants |-> <<>>],
                         !.descriptor_set_layouts = dl] :
                dl \in MovedFromMap(other.descriptor_set_layouts) }

\* The destructors: if (*this) device.get_handle().destroy(*this);
DestroyedHandles(this) ==
    IF this.handle # NullHandle THEN <<this.handle>> ELSE <<>>

ConstructDescriptorSetLayoutObject ==
    /\ Len(objects) < MaxObjects
    /\ \E resource_set \in LifetimeResourceSets :
        /\ objects' = Append(objects, NewDescriptorSetLayout(resource_set, FALSE))
        /\ life_call' = [function |-> "DescriptorSetLayout",
                         object |-> Len(objects) + 1]
    /\ device' = [device EXCEPT !.created = @ + 1]
    /\ UNCHANGED <<barrier_vars, pl_vars, dsl_vars, vk_vars, ctx_vars, gui_vars>>

ConstructPipelineLayoutObject ==
    /\ Len(objects) < MaxObjects
    /\ \E shader_program \in LifetimeShaderPrograms :
       \E order \in IterationOrders(shader_program.shader_sets) :
        /\ objects' = Append(objects, NewPipelineLayout(shader_program, FALSE, order))
        /\ life_call' = [function |-> "PipelineLayout",
                         object |-> Len(objects) + 1]
    /\ device' = [device EXCEPT !.created = @ + 1]
    /\ UNCHANGED <<barrier_vars, pl_vars, dsl_vars, vk_vars, ctx_vars, gui_vars>>

\* DescriptorSetLayout(DescriptorSetLayout &&other) and
\* PipelineLayout(PipelineLayout &&other)
MoveConstructObject ==
    /\ Len(objects) < MaxObjects
    /\ \E other \in DOMAIN objects :
        /\ objects[other].alive
        /\ \E moved_from \in MoveSources(objects[other]) :
            objects' = Append([objects EXCEPT ![other] = moved_from],
                              MoveTarget(objects[other]))
        /\ life_call' = [function |-> "move constructor",
                         object |-> Len(objects) + 1,
                         other |-> other,
                         other_before |-> objects[other]]
    /\ UNCHANGED <<device, barrier_vars, pl_vars, dsl_vars, vk_vars, ctx_vars, gui_vars>>

\* ~DescriptorSetLayout() and ~PipelineLayout()
DestroyObject ==
    /\ \E this \in DOMAIN objects :
        /\ objects[this].alive
        /\ objects' = [objects EXCEPT ![this].alive = FALSE]
        /\ device' = [device EXCEPT
                        !.destroyed = @ \o DestroyedHandles(objects[this])]
        /\ life_call' = [function |-> "destructor", object |-> this]
    /\ UNCHANGED <<barrier_vars, pl_vars, dsl_vars, vk_vars, ctx_vars, gui_vars>>

----------------------------------------------------------------------------
(* gui.cpp: Gui::input_event and Gui::update *)

press_time_ms == 200

\* The members as the class declaration initialises them: the GUI is shown
\* and no gesture is under way.
NewGui ==
    [visible |-> TRUE, prev_visible |-> TRUE,
     debug_view_active |-> FALSE, two_finger_tap |-> FALSE]

InputEventOf(source, action, button, touch_points) ==
    [source |-> source, action |-> action, button |-> button,
     touch_points |-> touch_points]

\* The input events: a key, mouse buttons and touches with one or two points.
InputEvents ==
    {InputEventOf("Keyboard", "Down", "none", 0)}
        \cup {InputEventOf("Mouse", action, button, 0) :
                action \in {"Down", "Up", "Move"}, button \in {"Left", "Right"}}
        \cup {InputEventOf("Touchscreen", action, "none", touch_points) :
                action \in {"Down", "Up", "Move"}, touch_points \in {1, 2}}

\* What timer.stop<Timer::Milliseconds>() may return at an Up event: just
\* below press_time_ms, or press_time_ms.  The timer is not read at any other
\* event, where the press_delta of the model is 0.
PressDeltas == {press_time_ms - 1, press_time_ms}

press_down(event) ==
    \/ event.source = "Mouse" /\ event.action = "Down"
    \/ event.source = "Touchscreen" /\ event.action = "Down"

press_up(event) ==
    \/ event.source = "Mouse" /\ event.action = "Up"
    \/ event.source = "Touchscreen" /\ event.action = "Up"

\* if (press_down) { timer.start(); ... two_finger_tap = true; }
AfterPressDown(this, event) ==
    IF event.source = "Touchscreen" /\ event.touch_points = 2
    THEN [this EXCEPT !.two_finger_tap = TRUE]
    ELSE this

\* if (press_up) { auto press_delta = timer.stop(); ... }
AfterPressUp(this, event, press_delta) ==
    IF press_delta < press_time_ms
    THEN IF event.source = "Mouse"
         THEN IF event.button = "Left"
              THEN [this EXCEPT !.visible = ~this.visible]
              ELSE IF event.button = "Right"
                   THEN [this EXCEPT !.debug_view_active = ~this.debug_view_active]
                   ELSE this
         ELSE IF event.source = "Touchscreen"
              THEN IF ~this.two_finger_tap /\ event.touch_points = 1
                   THEN [this EXCEPT !.visible = ~this.visible]
                   ELSE IF this.two_finger_tap /\ event.touch_points = 2
                        THEN [this EXCEPT !.debug_view_active = ~this.debug_view_active]
                        ELSE [this EXCEPT !.two_finger_tap = FALSE]
              ELSE this
    ELSE this

\* bool Gui::input_event(const InputEvent &input_event): the members after
\* the call.  want_capture_mouse is io.WantCaptureMouse.
Gui_input_event(this, event, want_capture_mouse, press_delta) ==
    IF ~want_capture_mouse
    THEN LET down == IF press_down(event) THEN AfterPressDown(this, event) ELSE this
         IN  IF press_up(event) THEN AfterPressUp(down, event, press_delta) ELSE down
    ELSE this

\* ... and the value it returns.
capture_move_event(event, want_capture_mouse) ==
    /\ event.source \in {"Mouse", "Touchscreen"}
    /\ event.action = "Move"
    /\ want_capture_mouse

\* A faulty variant of Gui_update: prev_visible is not assigned.
Gui_update_keeps_prev_visible(this) ==
    [members |-> this,
     set_dirty |-> this.visible # this.prev_visible,
     end_frame |-> ~this.visible,
     render |-> this.visible]

\* void Gui::update(const float delta_time): the members after the call and
\* what the call did: drawer.set_dirty(true), ImGui::EndFrame(),
\* ImGui::Render().
Gui_update(this) ==
    [members |-> IF this.visible # this.prev_visible
                 THEN [this EXCEPT !.prev_visible = this.visible]
                 ELSE this,
     set_dirty |-> this.visible # this.prev_visible,
     end_frame |-> ~this.visible,
     render |-> this.visible]

\* Nothing to remember: update has not been called.
NoHistory ==
    [updated |-> FALSE, visible |-> TRUE, changed |-> FALSE, odd |-> FALSE,
     previous |-> [function |-> "none"]]

InputEvent ==
    /\ \E event \in InputEvents, want_capture_mouse \in BOOLEAN :
       \E press_delta \in IF press_up(event) THEN PressDeltas ELSE {0} :
        /\ gui' = Gui_input_event(gui, event, want_capture_mouse, press_delta)
        /\ gui_call' = [function |-> "input_event", event |-> event,
                        want_capture_mouse |-> want_capture_mouse,
                        press_delta |-> press_delta,
                        before |-> gui,
                        previous |-> gui_history.previous,
                        result |-> capture_move_event(event, want_capture_mouse)]
        /\ gui_history' =
            [gui_history EXCEPT
                !.changed = @ \/ gui'.visible # gui.visible,
                !.odd = IF gui'.visible # gui.visible THEN ~@ ELSE @,
                !.previous = [function |-> "input_event", event |-> event,
                              want_capture_mouse |-> want_capture_mouse]]
    /\ UNCHANGED <<barrier_vars, pl_vars, dsl_vars, vk_vars, ctx_vars, life_vars>>

Update ==
    /\ gui' = Gui_update(gui).members
    /\ gui_call' = [function |-> "update", before |-> gui,
                    history |-> [gui_history EXCEPT !.previous = [function |-> "none"]],
                    set_dirty |-> Gui_update(gui).set_dirty,
                    end_frame |-> Gui_update(gui).end_frame,
                    render |-> Gui_update(gui).render]
    /\ gui_history' = [updated |-> TRUE, visible |-> gui.visible,
                       changed |-> FALSE, odd |-> FALSE,
                       previous |-> [function |-> "update"]]
    /\ UNCHANGED <<barrier_vars, pl_vars, dsl_vars, vk_vars, ctx_vars, life_vars>>

----------------------------------------------------------------------------
Init ==
    /\ command_buffer = <<>>
    /\ barrier_calls = <<>>
    /\ pipeline_layout = NoPipelineLayout
    /\ pl_call = [function |-> "none"]
    /\ dsl = UnconstructedDescriptorSetLayout
    /\ dsl_input = [resource_set |-> <<>>, use_dynamic_resources |-> FALSE]
    /\ dsl_call = [function |-> "none"]
    /\ vk_call = [function |-> "none"]
    /\ contexts = [c \in Contexts |-> IdleContext]
    /\ objects = <<>>
    /\ device = [created |-> 0, destroyed |-> <<>>]
    /\ life_call = [function |-> "none"]
    /\ gui = NewGui
    /\ gui_call = [function |-> "none"]
    /\ gui_history = NoHistory

NextBarrier ==
    \/ SetImageLayout
    \/ SetImageLayoutAspect
    \/ InsertImageMemoryBarrier

SpecBarrier == Init /\ [][NextBarrier]_vars

NextPipelineLayout ==
    \/ ConstructPipelineLayout
    \/ HasDescriptorSetLayout
    \/ GetDescriptorSetLayout
    \/ GetPushConstantRangeStage

SpecPipelineLayout == Init /\ [][NextPipelineLayout]_vars

NextDescriptorSetLayout ==
    \/ ConstructDescriptorSetLayout
    \/ GetLayoutBindingByIndex
    \/ GetLayoutBindingByName

SpecDescriptorSetLayout == Init /\ [][NextDescriptorSetLayout]_vars

NextVkCommon ==
    \/ GetBitsPerPixel
    \/ IsDepthOnlyFormat
    \/ IsDepthStencilFormat
    \/ IsDynamicBufferDescriptorType
    \/ IsBufferDescriptorType
    \/ GetSupportedDepthFormat
    \/ GetLoadAllStoreSwapchain

SpecVkCommon == Init /\ [][NextVkCommon]_vars

NextConcurrentBarrier ==
    \/ ConcurrentCall
    \/ ConcurrentSourceLayoutSwitch
    \/ ConcurrentTargetLayoutSwitch
    \/ ConcurrentPipelineBarrier

SpecConcurrentBarrier == Init /\ [][NextConcurrentBarrier]_vars

NextLifetime ==
    \/ ConstructDescriptorSetLayoutObject
    \/ ConstructPipelineLayoutObject
    \/ MoveConstructObject
    \/ DestroyObject

SpecLifetime == Init /\ [][NextLifetime]_vars

NextGui ==
    \/ InputEvent
    \/ Update

SpecGui == Init /\ [][NextGui]_vars
----------------------------------------------------------------------------
(* Claims about set_image_layout *)

\* The commands recorded by set_image_layout, as indices into command_buffer.
SetImageLayoutCalls ==
    {i \in DOMAIN barrier_calls : barrier_calls[i].function = "set_image_layout"}

RecordedBarrier(i) == command_buffer[i].imageMemoryBarriers[1]

\* The table of source access masks as the specification states it.
StatedSrcTable(old_layout) ==
    CASE old_layout = "Undefined" -> {}
      [] old_layout = "Preinitialized" -> {"HostWrite"}
      [] old_layout = "ColorAttachmentOptimal" -> {"ColorAttachmentWrite"}
      [] old_layout = "DepthStencilAttachmentOptimal" -> {"DepthStencilAttachmentWrite"}
      [] old_layout = "TransferSrcOptimal" -> {"TransferRead"}
      [] old_layout = "TransferDstOptimal" -> {"TransferWrite"}
      [] old_layout = "ShaderReadOnlyOptimal" -> {"ShaderRead"}
      [] OTHER -> {}

\* The table of destination access masks as the specification states it.
StatedDstTable(new_layout) ==
    CASE new_layout = "TransferDstOptimal" -> {"TransferWrite"}
      [] new_layout = "TransferSrcOptimal" -> {"TransferRead"}
      [] new_layout = "ColorAttachmentOptimal" -> {"ColorAttachmentWrite"}
      [] new_layout = "DepthStencilAttachmentOptimal" -> {"DepthStencilAttachmentWrite"}
      [] new_layout = "ShaderReadOnlyOptimal" -> {"ShaderRead"}
      [] OTHER -> {}

\* C1 as stated: the src_access_mask of every barrier set_image_layout
\* records is the table's entry for old_layout, whatever new_layout is.
C1_SrcMaskByOldLayoutAlone ==
    \A i \in SetImageLayoutCalls :
        RecordedBarrier(i).srcAccessMask = StatedSrcTable(barrier_calls[i].old_layout)

\* C1 as amended: the src_access_mask is the table's entry for old_layout,
\* except that when that entry is empty and new_layout is
\* ShaderReadOnlyOptimal it is HostWrite | TransferWrite.
C1_SrcMaskByOldLayoutOrBackfill ==
    \A i \in SetImageLayoutCalls :
        LET call == barrier_calls[i]
            entry == StatedSrcTable(call.old_layout)
        IN  RecordedBarrier(i).srcAccessMask =
                IF entry = {} /\ call.new_layout = "ShaderReadOnlyOptimal"
                THEN {"HostWrite", "TransferWrite"}
                ELSE entry

\* C1 witness: ColorAttachmentOptimal -> TransferSrcOptimal was recorded with
\* src = ColorAttachmentWrite and dst = TransferRead.
C1_Witness ==
    \E i \in SetImageLayoutCalls :
        /\ barrier_calls[i].old_layout = "ColorAttachmentOptimal"
        /\ barrier_calls[i].new_layout = "TransferSrcOptimal"
        /\ RecordedBarrier(i).srcAccessMask = {"ColorAttachmentWrite"}
        /\ RecordedBarrier(i).dstAccessMask = {"TransferRead"}

\* C2: backfill rule.  With new_layout ShaderReadOnlyOptimal, an old_layout
\* whose table entry is empty gives src = HostWrite | TransferWrite and
\* dst = ShaderRead; an old_layout whose entry is not empty keeps that entry.
C2_BackfillRule ==
    \A i \in SetImageLayoutCalls :
        LET call == barrier_calls[i]
            entry == StatedSrcTable(call.old_layout)
        IN  call.new_layout = "ShaderReadOnlyOptimal" =>
                /\ entry = {} =>
                    /\ RecordedBarrier(i).srcAccessMask = {"HostWrite", "TransferWrite"}
                    /\ RecordedBarrier(i).dstAccessMask = {"ShaderRead"}
                /\ entry # {} => RecordedBarrier(i).srcAccessMask = entry

\* C2 witness: a transition from an unhandled layout to ShaderReadOnlyOptimal
\* was recorded with the backfilled source mask.
C2_Witness ==
    \E i \in SetImageLayoutCalls :
        /\ barrier_calls[i].old_layout \notin HandledLayouts
        /\ barrier_calls[i].new_layout = "ShaderReadOnlyOptimal"
        /\ RecordedBarrier(i).srcAccessMask = {"HostWrite", "TransferWrite"}

\* C3: the dst_access_mask of every barrier set_image_layout records is the
\* table's entry for new_layout, whatever old_layout is.
C3_DstMaskByNewLayoutAlone ==
    \A i \in SetImageLayoutCalls :
        RecordedBarrier(i).dstAccessMask = StatedDstTable(barrier_calls[i].new_layout)

\* C3 witness: a transition to DepthStencilAttachmentOptimal from a layout
\* with a source mask was recorded with dst = DepthStencilAttachmentWrite only.
C3_Witness ==
    \E i \in SetImageLayoutCalls :
        /\ barrier_calls[i].new_layout = "DepthStencilAttachmentOptimal"
        /\ RecordedBarrier(i).srcAccessMask # {}
        /\ RecordedBarrier(i).dstAccessMask = {"DepthStencilAttachmentWrite"}

\* C4: every call of set_image_layout records one command holding exactly one
\* image barrier (and no other barrier) with the call's layouts, image,
\* subresource range and stage masks and both queue families IGNORED; with
\* neither layout in its table both access masks are empty.
C4_OneBarrierPerCall ==
    /\ Len(command_buffer) = Len(barrier_calls)
    /\ \A i \in SetImageLayoutCalls :
        LET call == barrier_calls[i]
            cmd == command_buffer[i]
            b == cmd.imageMemoryBarriers[1]
        IN  /\ Len(cmd.imageMemoryBarriers) = 1
            /\ cmd.memoryBarriers = <<>> /\ cmd.bufferMemoryBarriers = <<>>
            /\ cmd.srcStageMask = call.src_mask
            /\ cmd.dstStageMask = call.dst_mask
            /\ b.oldLayout = call.old_layout
            /\ b.newLayout = call.new_layout
            /\ b.image = call.image
            /\ b.subresourceRange = call.subresource_range
            /\ b.srcQueueFamilyIndex = QUEUE_FAMILY_IGNORED
            /\ b.dstQueueFamilyIndex = QUEUE_FAMILY_IGNORED
            /\ (call.old_layout \notin HandledLayouts /\ call.new_layout \notin HandledLayouts)
                    => (b.srcAccessMask = {} /\ b.dstAccessMask = {})

\* C4 witness: a transition between two unhandled layouts was recorded.
C4_Witness ==
    \E i \in SetImageLayoutCalls :
        /\ barrier_calls[i].old_layout = "General"
        /\ barrier_calls[i].new_layout = "PresentSrcKHR"
        /\ Len(command_buffer[i].imageMemoryBarriers) = 1
        /\ RecordedBarrier(i).srcAccessMask = {}
        /\ RecordedBarrier(i).dstAccessMask = {}
----------------------------------------------------------------------------
(* Claims about PipelineLayout *)

\* a + b without wrap-around: <<carry, high half-word, low half-word>>
ExactSum(a, b) ==
    LET lo == a[2] + b[2]
        hi == a[1] + b[1] + (lo \div HalfWord)
    IN  <<hi \div HalfWord, hi % HalfWord, lo % HalfWord>>

LeqExact(x, y) ==
    \/ x[1] < y[1]
    \/ x[1] = y[1] /\ x[2] < y[2]
    \/ x[1] = y[1] /\ x[2] = y[2] /\ x[3] <= y[3]

\* The byte interval of r fully contains [offset, offset + size).
Contains(r, offset, size) ==
    /\ LeqU32(r.offset, offset)
    /\ LeqExact(ExactSum(offset, size), ExactSum(r.offset, r.size))

ContainingResources(offset, size) ==
    {k \in DOMAIN pipeline_layout.shader_program.push_constants :
        Contains(pipeline_layout.shader_program.push_constants[k], offset, size)}

\* C5: get_push_constant_range_stage(offset, size) returns the union of the
\* stages of exactly the push-constant resources whose byte interval fully
\* contains [offset, offset + size): nothing when no resource contains it.
C5_StagesOfContainingRanges ==
    pl_call.function = "get_push_constant_range_stage" =>
        pl_call.result =
            UNION {pipeline_layout.shader_program.push_constants[k].stages :
                        k \in ContainingResources(pl_call.offset, pl_call.size)}

\* C6: has_descriptor_set_layout(index) is true exactly when index is less
\* than the number of descriptor-set layouts held, which is the number of sets
\* of the shader program; with sets 0 and 2 it is true of index 0.
C6_HasSetIsIndexBelowCount ==
    pl_call.function = "has_descriptor_set_layout" =>
        /\ Cardinality(DOMAIN pipeline_layout.descriptor_set_layouts)
                = Cardinality(pipeline_layout.shader_program.shader_sets)
        /\ pl_call.result =
                (pl_call.set_index < Cardinality(pipeline_layout.shader_program.shader_sets))
        /\ (pipeline_layout.shader_program.shader_sets = {0, 2} /\ pl_call.set_index = 0)
                => pl_call.result = TRUE

\* C6 witness: has_descriptor_set_layout(0) answered true for sets 0 and 2.
C6_Witness ==
    /\ pl_call.function = "has_descriptor_set_layout"
    /\ pipeline_layout.shader_program.shader_sets = {0, 2}
    /\ pl_call.set_index = 0
    /\ pl_call.result = TRUE

\* C7: has_descriptor_set_layout(i) is true if and only if set i is present
\* in the shader program, which is when get_descriptor_set_layout(i) yields a
\* layout.
C7_HasSetIffSetPresent ==
    pl_call.function = "has_descriptor_set_layout" =>
        /\ pl_call.result = (pl_call.set_index \in pipeline_layout.shader_program.shader_sets)
        /\ pl_call.result =
            (get_descriptor_set_layout(pipeline_layout, pl_call.set_index).exception = "none")

\* C8: get_descriptor_set_layout never raises an exception: for a set index
\* that is not present it returns, with an absent value.
C8_MissingSetLookupDoesNotThrow ==
    pl_call.function = "get_descriptor_set_layout" =>
        /\ pl_call.result.exception = "none"
        /\ pl_call.set_index \notin pipeline_layout.shader_program.shader_sets
                => pl_call.result.value = NoDescriptorSetLayout
----------------------------------------------------------------------------
(* Claims about DescriptorSetLayout *)

\* The input resources that occupy a binding slot, by position.
SlotResources ==
    {k \in DOMAIN dsl_input.resource_set :
        dsl_input.resource_set[k].type \notin SkippedResourceTypes}

\* The descriptor type the specification states for a resource kind.
StatedDescriptorType(kind, prefer_dynamic) ==
    CASE kind = "InputAttachment" -> "InputAttachment"
      [] kind = "Image"           -> "SampledImage"
      [] kind = "ImageSampler"    -> "CombinedImageSampler"
      [] kind = "ImageStorage"    -> "StorageImage"
      [] kind = "Sampler"         -> "Sampler"
      [] kind = "BufferUniform"   -> IF prefer_dynamic THEN "UniformBufferDynamic" ELSE "UniformBuffer"
      [] kind = "BufferStorage"   -> IF prefer_dynamic THEN "StorageBufferDynamic" ELSE "StorageBuffer"
      [] OTHER -> "none"

\* C9: a built DescriptorSetLayout has exactly one entry per distinct binding
\* value of its slot-occupying resources, and the entry of a binding carries
\* the OR of the stages of all the resources that share the binding.
C9_OneMergedEntryPerBinding ==
    dsl.handle # NullHandle =>
        LET slots == {dsl_input.resource_set[k].binding : k \in SlotResources}
            stages_of(b) == UNION {dsl_input.resource_set[k].stages :
                                k \in {j \in SlotResources :
                                        dsl_input.resource_set[j].binding = b}}
        IN  /\ Len(dsl.bindings) = Cardinality(slots)
            /\ \A b \in slots :
                \E k \in DOMAIN dsl.bindings :
                    /\ dsl.bindings[k].binding = b
                    /\ dsl.bindings[k].stageFlags = stages_of(b)

\* The entry the specification derives from resource r.
StatedEntry(r) ==
    [binding         |-> r.binding,
     descriptorCount |-> r.array_size,
     descriptorType  |-> StatedDescriptorType(r.type, dsl_input.use_dynamic_resources),
     stageFlags      |-> r.stages]

\* C10: for every slot-occupying input resource r, get_layout_binding(r.name)
\* and get_layout_binding(r.binding) return the same entry, which has
\* binding r.binding, count r.array_size, stage flags r.stages and the
\* descriptor type mapped from r.kind.
C10_LookupsReturnTheResourcesEntry ==
    \A k \in SlotResources :
        LET r == dsl_input.resource_set[k] IN
        /\ (dsl_call.function = "get_layout_binding(string)" /\ dsl_call.name = r.name) =>
                /\ dsl_call.result = get_layout_binding_by_index(dsl, r.binding)
                /\ dsl_call.result = [null |-> FALSE, value |-> StatedEntry(r)]
        /\ (dsl_call.function = "get_layout_binding(uint32_t)"
                /\ dsl_call.binding_index = r.binding) =>
                /\ dsl_call.result = get_layout_binding_by_name(dsl, r.name)
                /\ dsl_call.result = [null |-> FALSE, value |-> StatedEntry(r)]
\* The slot-occupying input resources, in input order.
SlotResourceSeq ==
    LET occupies(r) == r.type \notin {"Input", "Output", "PushConstant", "SpecializationConstant"}
    IN  SelectSeq(dsl_input.resource_set, occupies)

\* C11: get_layout_binding by slot returns null exactly when no resource with
\* that binding was registered, and by name exactly when no resource with
\* that name was registered; a registered name resolves to an entry.
C11_AbsentExactlyWhenNotRegistered ==
    LET registered == {SlotResourceSeq[k] : k \in DOMAIN SlotResourceSeq} IN
    /\ dsl_call.function = "get_layout_binding(uint32_t)" =>
            dsl_call.result.null = (dsl_call.binding_index \notin {r.binding : r \in registered})
    /\ dsl_call.function = "get_layout_binding(string)" =>
            /\ dsl_call.result.null = (dsl_call.name \notin {r.name : r \in registered})
            /\ ~dsl_call.result.null => dsl_call.result.value # NullLayoutBinding

\* C11 witness: in a layout with a registered resource, a lookup by an
\* unregistered name returned null.
C11_Witness ==
    /\ dsl_call.function = "get_layout_binding(string)"
    /\ Len(SlotResourceSeq) > 0
    /\ \A k \in DOMAIN SlotResourceSeq : SlotResourceSeq[k].name # dsl_call.name
    /\ dsl_call.result.null

\* C12: a build skips every resource of kind Input, Output, PushConstant or
\* SpecializationConstant: the entries are those of the other input
\* resources, one each and in input order, and only these resources have a
\* slot lookup and a name lookup.
C12_NonSlotKindsAreSkipped ==
    dsl.handle # NullHandle =>
        /\ Len(dsl.bindings) = Len(SlotResourceSeq)
        /\ \A k \in DOMAIN dsl.bindings :
            /\ dsl.bindings[k].binding = SlotResourceSeq[k].binding
            /\ dsl.bindings[k].descriptorCount = SlotResourceSeq[k].array_size
            /\ dsl.bindings[k].stageFlags = SlotResourceSeq[k].stages
        /\ DOMAIN dsl.bindings_lookup =
                {SlotResourceSeq[k].binding : k \in DOMAIN SlotResourceSeq}
        /\ DOMAIN dsl.resources_lookup =
                {SlotResourceSeq[k].name : k \in DOMAIN SlotResourceSeq}

\* C12 witness: a layout built from a stage input and a slot-occupying
\* resource holds the one entry.
C12_Witness ==
    /\ dsl.handle # NullHandle
    /\ Len(dsl_input.resource_set) = 2
    /\ dsl_input.resource_set[1].type = "Input"
    /\ dsl_input.resource_set[2].type = "BufferUniform"
    /\ Len(dsl.bindings) = 1
    /\ dsl.bindings[1].binding = dsl_input.resource_set[2].binding

\* The descriptor type of a kind other than the two buffer kinds: the flag
\* is no argument.
StatedFlagFreeType(kind) ==
    CASE kind = "InputAttachment" -> "InputAttachment"
      [] kind = "Image"           -> "SampledImage"
      [] kind = "ImageSampler"    -> "CombinedImageSampler"
      [] kind = "ImageStorage"    -> "StorageImage"
      [] kind = "Sampler"         -> "Sampler"

\* C13: with use_dynamic_resources BufferUniform and BufferStorage give
\* UniformBufferDynamic and StorageBufferDynamic, without it UniformBuffer and
\* StorageBuffer; every other slot-occupying kind gives the same type for
\* both values of the flag.
C13_DynamicFlagOnlyForBuffers ==
    dsl.handle # NullHandle =>
        \A k \in DOMAIN dsl.bindings :
            LET kind == SlotResourceSeq[k].type
                type == dsl.bindings[k].descriptorType
            IN  CASE kind = "BufferUniform" ->
                        type = IF dsl_input.use_dynamic_resources
                               THEN "UniformBufferDynamic" ELSE "UniformBuffer"
                  [] kind = "BufferStorage" ->
                        type = IF dsl_input.use_dynamic_resources
                               THEN "StorageBufferDynamic" ELSE "StorageBuffer"
                  [] OTHER -> type = StatedFlagFreeType(kind)

\* C13 witness: a BufferStorage resource built with the flag set gave
\* StorageBufferDynamic.
C13_Witness ==
    /\ dsl.handle # NullHandle
    /\ dsl_input.use_dynamic_resources
    /\ Len(dsl.bindings) = 1
    /\ SlotResourceSeq[1].type = "BufferStorage"
    /\ dsl.bindings[1].descriptorType = "StorageBufferDynamic"

\* The eleven kinds of the closed enumeration.
StatedResourceKinds ==
    {"Input", "Output", "Image", "ImageSampler", "ImageStorage", "Sampler",
     "BufferUniform", "BufferStorage", "InputAttachment", "PushConstant",
     "SpecializationConstant"}

\* C14: the build fails with the runtime error exactly when some input
\* resource has a kind that is neither skipped nor mapped; a failed build has
\* created no device object, and a build from the eleven kinds never fails.
C14_FailsExactlyOnUnmappedKind ==
    dsl_call.function # "none" =>
        LET unmapped == \E k \in DOMAIN dsl_input.resource_set :
                            dsl_input.resource_set[k].type \notin StatedResourceKinds
        IN  /\ (dsl.exception = "std::runtime_error") = unmapped
            /\ dsl.exception \in {"none", "std::runtime_error"}
            /\ unmapped => dsl.handle = NullHandle /\ dsl.bindings = <<>>
            /\ ~unmapped => dsl.handle # NullHandle

\* C14 witness: a build from a resource of an unmapped kind failed and left
\* no handle.
C14_Witness ==
    /\ dsl_call.function = "DescriptorSetLayout"
    /\ dsl_input.resource_set # <<>>
    /\ dsl_input.resource_set[1].type = OtherResourceType
    /\ dsl.exception = "std::runtime_error"
    /\ dsl.handle = NullHandle

\* C15: the create-info of a PipelineLayout holds one push-constant range per
\* push-constant resource of the program, in resource order, with the
\* resource's stages, offset and size; ranges of the same bytes stay apart.
C15_OneRangePerPushConstant ==
    pipeline_layout.handle # NullHandle =>
        LET ranges == pipeline_layout.create_info.pPushConstantRanges
            pcs == pipeline_layout.shader_program.push_constants
        IN  /\ Len(ranges) = Len(pcs)
            /\ \A k \in DOMAIN pcs :
                /\ ranges[k].stageFlags = pcs[k].stages
                /\ ranges[k].offset = pcs[k].offset
                /\ ranges[k].size = pcs[k].size

\* C15 witness: two resources covering bytes [0,16) for different stages
\* gave two ranges.
C15_Witness ==
    LET ranges == pipeline_layout.create_info.pPushConstantRanges IN
    /\ pipeline_layout.handle # NullHandle
    /\ Len(ranges) = 2
    /\ ranges[1].offset = ranges[2].offset /\ ranges[1].size = ranges[2].size
    /\ ranges[1].stageFlags # ranges[2].stageFlags

----------------------------------------------------------------------------
(* Properties of the classifiers of vk_common.cpp *)

\* C16 as stated: get_bits_per_pixel returns -1 for Undefined and a
\* non-negative value for every other format.
C16_OnlyUndefinedGivesMinusOne ==
    vk_call.function = "get_bits_per_pixel" =>
        /\ vk_call.format = "Undefined" => vk_call.result = -1
        /\ vk_call.format # "Undefined" => vk_call.result >= 0

\* C16 as amended: get_bits_per_pixel always returns an integer; it returns
\* exactly -1 for Undefined and for the formats its switch does not name
\* (the block-compressed formats), and a positive value for every other
\* format.
C16_UndefinedAndUnlistedGiveMinusOne ==
    vk_call.function = "get_bits_per_pixel" =>
        /\ vk_call.result \in Int
        /\ vk_call.format \in {"Undefined"} \cup BlockCompressedFormats
                => vk_call.result = -1
        /\ vk_call.format \notin {"Undefined"} \cup BlockCompressedFormats
                => vk_call.result > 0

\* C16 witness: get_bits_per_pixel was asked about a block-compressed format
\* and returned -1.
C16_Witness ==
    /\ vk_call.function = "get_bits_per_pixel"
    /\ vk_call.format = "Bc7UnormBlock"
    /\ vk_call.result = -1

\* C17: is_depth_only_format holds exactly for D16Unorm and D32Sfloat,
\* is_depth_stencil_format exactly for those two and D16UnormS8Uint,
\* D24UnormS8Uint, D32SfloatS8Uint; so every depth-only format is a
\* depth-or-stencil format.
C17_DepthOnlyImpliesDepthStencil ==
    /\ vk_call.function = "is_depth_only_format" =>
        /\ vk_call.result = (vk_call.format \in {"D16Unorm", "D32Sfloat"})
        /\ vk_call.result => is_depth_stencil_format(vk_call.format)
    /\ vk_call.function = "is_depth_stencil_format" =>
        /\ vk_call.result =
                (vk_call.format \in {"D16Unorm", "D32Sfloat", "D16UnormS8Uint",
                                     "D24UnormS8Uint", "D32SfloatS8Uint"})
        /\ is_depth_only_format(vk_call.format) => vk_call.result

\* C17 witness: is_depth_stencil_format was asked about a depth-only format
\* and answered true.
C17_Witness ==
    /\ vk_call.function = "is_depth_stencil_format"
    /\ vk_call.format = "D32Sfloat"
    /\ is_depth_only_format(vk_call.format)
    /\ vk_call.result = TRUE

\* C18: is_dynamic_buffer_descriptor_type holds exactly for the two dynamic
\* buffer types and is_buffer_descriptor_type exactly for those two and
\* UniformBuffer, StorageBuffer; so dynamic implies buffer, and no other
\* descriptor type satisfies either.
C18_DynamicBufferImpliesBuffer ==
    /\ vk_call.function = "is_dynamic_buffer_descriptor_type" =>
        /\ vk_call.result =
                (vk_call.descriptor_type \in
                    {"UniformBufferDynamic", "StorageBufferDynamic"})
        /\ vk_call.result => is_buffer_descriptor_type(vk_call.descriptor_type)
    /\ vk_call.function = "is_buffer_descriptor_type" =>
        /\ vk_call.result =
                (vk_call.descriptor_type \in
                    {"UniformBuffer", "StorageBuffer",
                     "UniformBufferDynamic", "StorageBufferDynamic"})
        /\ is_dynamic_buffer_descriptor_type(vk_call.descriptor_type)
                => vk_call.result

\* C18 witness: the inclusion is strict: is_dynamic_buffer_descriptor_type
\* answered false for StorageBuffer, which is a buffer type.
C18_Witness ==
    /\ vk_call.function = "is_dynamic_buffer_descriptor_type"
    /\ vk_call.descriptor_type = "StorageBuffer"
    /\ vk_call.result = FALSE
    /\ is_buffer_descriptor_type(vk_call.descriptor_type)

----------------------------------------------------------------------------
(* Properties of the two other entry points that record barriers *)

SetImageLayoutAspectCalls ==
    {i \in DOMAIN barrier_calls :
        barrier_calls[i].function = "set_image_layout(aspect_mask)"}

InsertImageMemoryBarrierCalls ==
    {i \in DOMAIN barrier_calls :
        barrier_calls[i].function = "insert_image_memory_barrier"}

\* The access masks the specification states for set_image_layout.
StatedSrcAccessMask(old_layout, new_layout) ==
    IF StatedSrcTable(old_layout) = {} /\ new_layout = "ShaderReadOnlyOptimal"
    THEN {"HostWrite", "TransferWrite"}
    ELSE StatedSrcTable(old_layout)

\* C19: the overload of set_image_layout with an aspect mask records the
\* command the full overload records for the subresource range {aspect mask,
\* base mip level 0, level count 1, base array layer 0, layer count 1}: same
\* access masks, layouts and stage masks for every pair of layouts.
C19_AspectOverloadIsFullOverloadOnFirstMipAndLayer ==
    \A i \in SetImageLayoutAspectCalls :
        LET call == barrier_calls[i]
            stated_range == [aspectMask |-> call.aspect_mask,
                             baseMipLevel |-> 0, levelCount |-> 1,
                             baseArrayLayer |-> 0, layerCount |-> 1]
            b == RecordedBarrier(i)
        IN  /\ command_buffer[i] =
                    set_image_layout_command(call.image, call.old_layout,
                        call.new_layout, stated_range,
                        call.src_mask, call.dst_mask)
            /\ Len(command_buffer[i].imageMemoryBarriers) = 1
            /\ b.subresourceRange = stated_range
            /\ b.oldLayout = call.old_layout
            /\ b.newLayout = call.new_layout
            /\ b.srcAccessMask =
                    StatedSrcAccessMask(call.old_layout, call.new_layout)
            /\ b.dstAccessMask = StatedDstTable(call.new_layout)
            /\ command_buffer[i].srcStageMask = call.src_mask
            /\ command_buffer[i].dstStageMask = call.dst_mask

\* C19 witness: the overload recorded a transition of the depth and stencil
\* aspects to TransferDstOptimal on mip level 0 and layer 0.
C19_Witness ==
    \E i \in SetImageLayoutAspectCalls :
        /\ barrier_calls[i].aspect_mask = {"Depth", "Stencil"}
        /\ barrier_calls[i].old_layout = "Undefined"
        /\ barrier_calls[i].new_layout = "TransferDstOptimal"
        /\ RecordedBarrier(i).subresourceRange.layerCount = 1
        /\ RecordedBarrier(i).dstAccessMask = {"TransferWrite"}

\* C20: every call of insert_image_memory_barrier records one command with
\* exactly one image barrier whose access masks are the caller's, unchanged,
\* for every pair of layouts; and the barriers of set_image_layout (either
\* overload) take their access masks from the tables and the backfill rule,
\* never from a caller.
C20_InsertedBarrierKeepsCallerMasks ==
    /\ Len(command_buffer) = Len(barrier_calls)
    /\ \A i \in InsertImageMemoryBarrierCalls :
        LET call == barrier_calls[i]
            cmd == command_buffer[i]
            b == cmd.imageMemoryBarriers[1]
        IN  /\ Len(cmd.imageMemoryBarriers) = 1
            /\ cmd.memoryBarriers = <<>> /\ cmd.bufferMemoryBarriers = <<>>
            /\ b.srcAccessMask = call.src_access_mask
            /\ b.dstAccessMask = call.dst_access_mask
            /\ b.oldLayout = call.old_layout
            /\ b.newLayout = call.new_layout
            /\ b.image = call.image
            /\ b.subresourceRange = call.subresource_range
            /\ b.srcQueueFamilyIndex = QUEUE_FAMILY_IGNORED
            /\ b.dstQueueFamilyIndex = QUEUE_FAMILY_IGNORED
            /\ cmd.srcStageMask = call.src_stage_mask
            /\ cmd.dstStageMask = call.dst_stage_mask
    /\ \A i \in SetImageLayoutCalls \cup SetImageLayoutAspectCalls :
        LET call == barrier_calls[i]
        IN  /\ RecordedBarrier(i).srcAccessMask =
                    StatedSrcAccessMask(call.old_layout, call.new_layout)
            /\ RecordedBarrier(i).dstAccessMask =
                    StatedDstTable(call.new_layout)

\* C20 witness: insert_image_memory_barrier recorded a transition from
\* Undefined to ShaderReadOnlyOptimal with the caller's empty source mask,
\* where set_image_layout would have backfilled it.
C20_Witness ==
    \E i \in InsertImageMemoryBarrierCalls :
        /\ barrier_calls[i].old_layout = "Undefined"
        /\ barrier_calls[i].new_layout = "ShaderReadOnlyOptimal"
        /\ barrier_calls[i].src_access_mask = {}
        /\ RecordedBarrier(i).srcAccessMask = {}
        /\ RecordedBarrier(i).dstAccessMask = {"ColorAttachmentWrite"}

----------------------------------------------------------------------------
(* Order of the input of a DescriptorSetLayout *)

\* The sequences with the elements of s in another order.
PermutationsOf(s) ==
    {[i \in DOMAIN s |-> s[p[i]]] : p \in Permutations(DOMAIN s)}

\* No two resources of the input sequence have the same binding.
NoDuplicateBindings ==
    \A j, k \in DOMAIN dsl_input.resource_set :
        j # k => dsl_input.resource_set[j].binding # dsl_input.resource_set[k].binding

Constructed == dsl.handle # NullHandle \/ dsl.exception # "none"

\* C21 as stated: a second build from the same sequence gives the same
\* layout, and for a sequence without duplicate bindings so does a build from
\* every permutation of it.
C21_BuildIndependentOfInputOrder ==
    Constructed =>
        /\ DescriptorSetLayoutCtor(dsl_input.resource_set,
                                   dsl_input.use_dynamic_resources) = dsl
        /\ NoDuplicateBindings =>
            \A other_order \in PermutationsOf(dsl_input.resource_set) :
                DescriptorSetLayoutCtor(other_order,
                                        dsl_input.use_dynamic_resources) = dsl

\* C21 as amended: a second build from the same sequence gives the same
\* layout.  For a sequence without duplicate bindings a build from any
\* permutation fails or succeeds alike and gives the same slot lookup and the
\* same set of entries; the entry sequence follows the input order, and a
\* name resolves to the binding of the first resource in input order that
\* carries it, so only these two depend on the order.
C21_BuildIndependentOfOrderUpToSequenceAndNames ==
    Constructed =>
        /\ DescriptorSetLayoutCtor(dsl_input.resource_set,
                                   dsl_input.use_dynamic_resources) = dsl
        /\ dsl.exception = "none" =>
            /\ Len(dsl.bindings) = Len(SlotResourceSeq)
            /\ \A k \in DOMAIN dsl.bindings :
                    dsl.bindings[k] = StatedEntry(SlotResourceSeq[k])
            /\ DOMAIN dsl.resources_lookup =
                    {SlotResourceSeq[k].name : k \in DOMAIN SlotResourceSeq}
            /\ \A name \in DOMAIN dsl.resources_lookup :
                LET first == CHOOSE k \in DOMAIN SlotResourceSeq :
                                /\ SlotResourceSeq[k].name = name
                                /\ \A j \in 1 .. (k - 1) :
                                        SlotResourceSeq[j].name # name
                IN  dsl.resources_lookup[name] = SlotResourceSeq[first].binding
        /\ NoDuplicateBindings =>
            \A other_order \in PermutationsOf(dsl_input.resource_set) :
                LET other == DescriptorSetLayoutCtor(other_order,
                                    dsl_input.use_dynamic_resources)
                IN  /\ other.exception = dsl.exception
                    /\ other.bindings_lookup = dsl.bindings_lookup
                    /\ {other.bindings[k] : k \in DOMAIN other.bindings} =
                            {dsl.bindings[k] : k \in DOMAIN dsl.bindings}
                    /\ Len(other.bindings) = Len(dsl.bindings)
                    /\ DOMAIN other.resources_lookup = DOMAIN dsl.resources_lookup

\* C21 witness: a layout was built from two slot-occupying resources with
\* different bindings and the same name, and the build from the other order
\* gives another entry sequence.
C21_Witness ==
    /\ dsl.handle # NullHandle
    /\ Len(dsl_input.resource_set) = 2
    /\ Len(dsl.bindings) = 2
    /\ NoDuplicateBindings
    /\ dsl_input.resource_set[1].name = dsl_input.resource_set[2].name
    /\ \E other_order \in PermutationsOf(dsl_input.resource_set) :
            DescriptorSetLayoutCtor(other_order,
                dsl_input.use_dynamic_resources).bindings # dsl.bindings

----------------------------------------------------------------------------
(* set_image_layout called from several contexts at once *)

\* C22: under every interleaving of the contexts, the command buffer of each
\* context holds exactly the commands its own calls record when run alone,
\* in call order, with the access masks of the tables and the backfill rule;
\* only the call a context is still in has no command yet.
C22_EachContextGetsItsOwnBarriers ==
    \A context \in Contexts :
        LET ctx == contexts[context] IN
        /\ Len(ctx.command_buffer) =
                IF ctx.pc = "idle" THEN Len(ctx.calls) ELSE Len(ctx.calls) - 1
        /\ \A i \in DOMAIN ctx.command_buffer :
            LET call == ctx.calls[i]
                b == ctx.command_buffer[i].imageMemoryBarriers[1]
            IN  /\ ctx.command_buffer[i] =
                        set_image_layout_command(call.image, call.old_layout,
                            call.new_layout, call.subresource_range,
                            call.src_mask, call.dst_mask)
                /\ Len(ctx.command_buffer[i].imageMemoryBarriers) = 1
                /\ b.image = call.image
                /\ b.srcAccessMask =
                        StatedSrcAccessMask(call.old_layout, call.new_layout)
                /\ b.dstAccessMask = StatedDstTable(call.new_layout)

\* C22 witness: context_1 has recorded a backfilled barrier and is between
\* the two switches of its second call while context_2 is inside a call for
\* another transition and about to record.
C22_Witness ==
    /\ Len(contexts["context_1"].command_buffer) = 1
    /\ contexts["context_1"].calls[1].new_layout = "ShaderReadOnlyOptimal"
    /\ contexts["context_1"].command_buffer[1].imageMemoryBarriers[1].srcAccessMask
            = {"HostWrite", "TransferWrite"}
    /\ contexts["context_1"].pc = "switch (new_layout)"
    /\ contexts["context_2"].pc = "pipelineBarrier"
    /\ contexts["context_2"].arguments.old_layout = "TransferDstOptimal"
    /\ contexts["context_2"].arguments # contexts["context_1"].arguments

----------------------------------------------------------------------------
(* Duplicate bindings in the input of a DescriptorSetLayout *)

\* The slot-occupying input resources with binding b, in input order.
SlotResourcesWithBinding(b) ==
    LET has_binding(r) == r.binding = b
    IN  SelectSeq(SlotResourceSeq, has_binding)

\* C23 as stated: when several slot-occupying input resources have the
\* binding asked for, get_layout_binding(binding) returns the entry built
\* from the last of them, with that resource's stages alone.
C23_SlotLookupKeepsLaterResource ==
    (dsl_call.function = "get_layout_binding(uint32_t)"
        /\ Len(SlotResourcesWithBinding(dsl_call.binding_index)) >= 2) =>
            LET same == SlotResourcesWithBinding(dsl_call.binding_index)
            IN  /\ ~dsl_call.result.null
                /\ dsl_call.result.value = StatedEntry(same[Len(same)])

\* C23 as amended: when several slot-occupying input resources have the
\* binding asked for, get_layout_binding(binding) returns the entry built
\* from the first of them, with that resource's stages alone: the later
\* resources are silently dropped from the slot lookup, not OR-ed in.
C23_SlotLookupKeepsFirstResource ==
    (dsl_call.function = "get_layout_binding(uint32_t)"
        /\ Len(SlotResourcesWithBinding(dsl_call.binding_index)) >= 2) =>
            LET same == SlotResourcesWithBinding(dsl_call.binding_index)
            IN  /\ ~dsl_call.result.null
                /\ dsl_call.result.value = StatedEntry(same[1])
                /\ dsl_call.result.value.stageFlags = same[1].stages

\* C23 witness: two resources with the same binding and different stages and
\* kinds were built into a layout and the binding was looked up: the entry
\* has the stages of the first and not the OR of both.
C23_Witness ==
    /\ dsl_call.function = "get_layout_binding(uint32_t)"
    /\ Len(SlotResourcesWithBinding(dsl_call.binding_index)) = 2
    /\ LET same == SlotResourcesWithBinding(dsl_call.binding_index)
       IN  /\ same[1].stages # same[2].stages
           /\ same[1].type # same[2].type
           /\ dsl_call.result.value.stageFlags = same[1].stages
           /\ dsl_call.result.value.stageFlags # same[1].stages \cup same[2].stages
           /\ dsl_call.result.value.descriptorType # StatedEntry(same[2]).descriptorType

----------------------------------------------------------------------------
(* get_push_constant_range_stage over all 32-bit arguments *)

\* C24: for every 32-bit offset and size, the stages
\* get_push_constant_range_stage returns come only from resources r with
\* offset >= r.offset and offset + size <= r.offset + r.size, the sums taken
\* without wrap-around: a query whose end exceeds 2^32 - 1 matches no range
\* that does not contain it.
C24_NoStageFromARangeThatDoesNotContainTheQuery ==
    pl_call.function = "get_push_constant_range_stage" =>
        pl_call.result \subseteq
            UNION {pipeline_layout.shader_program.push_constants[k].stages :
                        k \in ContainingResources(pl_call.offset, pl_call.size)}

----------------------------------------------------------------------------
(* The create-info of a PipelineLayout *)

\* C25: in the create-info the constructor passes to the device, pSetLayouts
\* has one handle per set index of the shader program, and the handle of the
\* layout of set index i is at position i (element i + 1 of the sequence
\* here, which counts from 1), also when the set indices are not contiguous.
C25_SetLayoutHandleAtItsSetIndex ==
    pipeline_layout.handle # NullHandle =>
        LET handles == pipeline_layout.create_info.pSetLayouts
            sets == pipeline_layout.shader_program.shader_sets
        IN  /\ Len(handles) = Cardinality(sets)
            /\ \A i \in sets :
                /\ i + 1 \in DOMAIN handles
                /\ handles[i + 1] = pipeline_layout.descriptor_set_layouts[i].handle

----------------------------------------------------------------------------
(* Lifetime of the device handles *)

\* How many times the device was told to destroy handle h.
TimesDestroyed(h) ==
    Cardinality({k \in DOMAIN device.destroyed : device.destroyed[k] = h})

\* C26: after any sequence of constructions, move constructions and
\* destructions, every handle the device created was destroyed at most once,
\* and exactly once when every object has been destroyed; a move leaves the
\* source with a null handle, which its destructor does not destroy, and the
\* target with the handle and the lookup tables the source had.
C26_EachHandleDestroyedOnce ==
    /\ \A n \in 1 .. device.created : TimesDestroyed(DeviceHandle(n)) <= 1
    /\ \A k \in DOMAIN device.destroyed :
            \E n \in 1 .. device.created : device.destroyed[k] = DeviceHandle(n)
    /\ (\A o \in DOMAIN objects : ~objects[o].alive) =>
            \A n \in 1 .. device.created : TimesDestroyed(DeviceHandle(n)) = 1
    /\ life_call.function = "move constructor" =>
        LET source == objects[life_call.other]
            target == objects[life_call.object]
            before == life_call.other_before
        IN  /\ source.handle = NullHandle
            /\ DestroyedHandles(source) = <<>>
            /\ target.handle = before.handle
            /\ target.kind = before.kind
            /\ before.kind = "DescriptorSetLayout" =>
                /\ target.bindings = before.bindings
                /\ target.bindings_lookup = before.bindings_lookup
                /\ target.resources_lookup = before.resources_lookup
            /\ before.kind = "PipelineLayout" =>
                /\ target.descriptor_set_layouts = before.descriptor_set_layouts
                /\ target.shader_program = before.shader_program

\* C26 witness: a DescriptorSetLayout was constructed, moved from and moved
\* from again, and all three objects were destroyed: the device destroyed its
\* one handle once.
C26_Witness ==
    /\ Len(objects) = 3
    /\ \A o \in DOMAIN objects :
        ~objects[o].alive /\ objects[o].kind = "DescriptorSetLayout"
    /\ objects[1].handle = NullHandle
    /\ objects[2].handle = NullHandle
    /\ objects[3].handle = DeviceHandle(1)
    /\ device.created = 1
    /\ device.destroyed = <<DeviceHandle(1)>>

----------------------------------------------------------------------------
(* get_supported_depth_format *)

\* The preference order stated for get_supported_depth_format.
StatedPreference ==
    <<"D32SfloatS8Uint", "D32Sfloat", "D24UnormS8Uint", "D16UnormS8Uint",
      "D16Unorm">>

\* C27: get_supported_depth_format returns the first format of the
\* preference order whose optimal-tiling features include depth-stencil
\* attachment, and Undefined when none does; so its result is Undefined or a
\* format of which is_depth_stencil_format is true, and no supported format
\* earlier in the order is skipped.
C27_FirstSupportedDepthFormat ==
    vk_call.function = "get_supported_depth_format" =>
        LET supported(k) == "DepthStencilAttachment" \in
                                vk_call.physical_device[StatedPreference[k]]
            candidates == {k \in DOMAIN StatedPreference : supported(k)}
        IN  /\ candidates = {} => vk_call.result = "Undefined"
            /\ candidates # {} =>
                \E k \in candidates :
                    /\ vk_call.result = StatedPreference[k]
                    /\ \A j \in candidates : k <= j
            /\ vk_call.result = "Undefined" \/ is_depth_stencil_format(vk_call.result)

\* C27 witness: a device without D32SfloatS8Uint that supports both D32Sfloat
\* and D16Unorm was asked, and the answer was D32Sfloat.
C27_Witness ==
    /\ vk_call.function = "get_supported_depth_format"
    /\ "DepthStencilAttachment" \notin vk_call.physical_device["D32SfloatS8Uint"]
    /\ "DepthStencilAttachment" \in vk_call.physical_device["D32Sfloat"]
    /\ "DepthStencilAttachment" \in vk_call.physical_device["D16Unorm"]
    /\ vk_call.result = "D32Sfloat"

----------------------------------------------------------------------------
(* gbuffer::get_load_all_store_swapchain *)

\* C28: gbuffer::get_load_all_store_swapchain returns four entries
\* (swapchain, depth, albedo, normal); every entry has load op Load, the
\* swapchain entry has store op Store and the other three have store op
\* DontCare.
C28_LoadAllStoreSwapchain ==
    vk_call.function = "gbuffer::get_load_all_store_swapchain" =>
        /\ Len(vk_call.result) = 4
        /\ \A k \in 1 .. 4 : vk_call.result[k].load_op = "Load"
        /\ vk_call.result[1].store_op = "Store"
        /\ \A k \in 2 .. 4 : vk_call.result[k].store_op = "DontCare"

----------------------------------------------------------------------------
(* Gui: taps and visibility *)

\* The last call was input_event with a touch Up of `points` points, and the
\* input_event before it was the Down of the same points, both while
\* io.WantCaptureMouse was false, and the press lasted less than
\* press_time_ms.
ShortTap(points) ==
    /\ gui_call.function = "input_event"
    /\ gui_call.event = InputEventOf("Touchscreen", "Up", "none", points)
    /\ ~gui_call.want_capture_mouse
    /\ gui_call.press_delta < 200
    /\ gui_call.previous.function = "input_event"
    /\ gui_call.previous.event = InputEventOf("Touchscreen", "Down", "none", points)
    /\ ~gui_call.previous.want_capture_mouse

\* C29: after any sequence of input events, a short one-point tap outside the
\* GUI windows toggles `visible` once and leaves debug_view.active alone, a
\* short two-point tap toggles debug_view.active and leaves `visible` alone,
\* and an Up event changes neither when io.WantCaptureMouse is true or the
\* press lasted press_time_ms (200 ms) or longer.
C29_TapTogglesVisible ==
    /\ ShortTap(1) =>
        /\ gui.visible = ~gui_call.before.visible
        /\ gui.debug_view_active = gui_call.before.debug_view_active
    /\ ShortTap(2) =>
        /\ gui.debug_view_active = ~gui_call.before.debug_view_active
        /\ gui.visible = gui_call.before.visible
    /\ (/\ gui_call.function = "input_event"
        /\ gui_call.event.action = "Up"
        /\ gui_call.want_capture_mouse \/ gui_call.press_delta >= 200) =>
            /\ gui.visible = gui_call.before.visible
            /\ gui.debug_view_active = gui_call.before.debug_view_active

\* C30 as stated: after every call of update, prev_visible equals visible;
\* the call marks the drawer dirty exactly when visible differs from its
\* value at the previous call of update; every visibility change that
\* input_event made since then is reported as dirty by this call; and when
\* visible is false the call ends the frame and does not render.
C30_UpdateReportsEveryVisibilityChange ==
    gui_call.function = "update" =>
        /\ gui.prev_visible = gui.visible
        /\ gui_call.history.updated =>
            /\ gui_call.set_dirty = (gui_call.before.visible # gui_call.history.visible)
            /\ gui_call.history.changed => gui_call.set_dirty
        /\ ~gui.visible => (gui_call.end_frame /\ ~gui_call.render)

\* C30 as amended: after every call of update, prev_visible equals visible;
\* the call marks the drawer dirty exactly when visible differs from its
\* value at the previous call of update, that is exactly when input_event
\* changed visible an odd number of times since then: changes that cancel
\* each other are not reported; and when visible is false the call ends the
\* frame and does not render, else it renders.
C30_UpdateReportsNetVisibilityChange ==
    gui_call.function = "update" =>
        /\ gui.prev_visible = gui.visible
        /\ gui.visible = gui_call.before.visible
        /\ gui_call.history.updated =>
            /\ gui_call.set_dirty = (gui_call.before.visible # gui_call.history.visible)
            /\ gui_call.set_dirty = gui_call.history.odd
        /\ ~gui.visible => (gui_call.end_frame /\ ~gui_call.render)
        /\ gui.visible => (gui_call.render /\ ~gui_call.end_frame)

\* C30 witness: between two calls of update, input_event hid the GUI; the
\* second call marked the drawer dirty, ended the frame and did not render.
C30_Witness ==
    /\ gui_call.function = "update"
    /\ gui_call.history.updated
    /\ gui_call.history.visible
    /\ gui_call.history.odd
    /\ ~gui.visible
    /\ gui_call.set_dirty
    /\ gui_call.end_frame
    /\ ~gui_call.render
====
